---- MODULE Spec2Model ----
(***************************************************************************)
(* AutoLighthouse report mode: the history store (load, advisory lock,     *)
(* save), the analysis fold of run(), and the issue lifecycle manager.     *)
(*                                                                         *)
(* Spec       two report invocations racing on one history file            *)
(* SpecIssue  report cycles driving manageIssue against the issue API      *)
(* SpecRun    one run() from discovery to the fail-on verdict, over        *)
(*            well-formed and malformed inputs and failing collaborators   *)
(* SpecFn     saveHistory's document, cleanupStalePaths, loadHistory and   *)
(*            detectRegressions, each called once on an input drawn from   *)
(*            a bounded set                                                *)
(***************************************************************************)
EXTENDS Integers, Sequences, FiniteSets, TLC

\* ------------------------------------------------------------------ bounds
MaxCycles == 2          \* report cycles started in one behaviour of Spec
MaxIssueCycles == 3     \* report cycles in one behaviour of SpecIssue
MaxRuns == 3            \* runs of a history entry handed to a function call
MaxPathLen == 4         \* characters of a path handed to validateHistoryPath

\* ------------------------------------------------------- program constants
METRIC_KEYS == <<"first-contentful-paint", "largest-contentful-paint",
                 "cumulative-layout-shift", "total-blocking-time",
                 "speed-index", "interactive">>
MIN_RUNS_FOR_REGRESSION == 2
DefaultWindowSize == 5
LockAttempts == 3
LABELS == <<"lighthouse", "performance">>

MetricKeySet == {METRIC_KEYS[i] : i \in 1..Len(METRIC_KEYS)}

\* a metric the audit did not report (undefined in the source); every
\* reported numericValue is >= 0
Absent == -1

\* ------------------------------------------------------------ sequences
Last(s) == s[Len(s)]

\* s.slice(-n) for an integer n >= 0 ; slice(-0) is slice(0), the whole array
SliceLast(s, n) ==
  IF n = 0 \/ n >= Len(s) THEN s ELSE SubSeq(s, Len(s) - n + 1, Len(s))

\* the exact sum of a sequence of integers
RECURSIVE SumSeq(_)
SumSeq(s) == IF s = <<>> THEN 0 ELSE Head(s) + SumSeq(Tail(s))

SeqContains(s, x) == \E i \in 1..Len(s) : s[i] = x

\* ------------------------------------------------------------ history data
\* History.paths is a JS object: `keys` is its insertion order, `paths` the
\* entries.  A key is the pair behind the string `${profile}:${pathname}`.
EmptyHistory == [lastUpdated |-> 0, keys |-> <<>>, paths |-> <<>>]

HasKey(h, k) == SeqContains(h.keys, k)

KeyIndex(h, k) == CHOOSE i \in 1..Len(h.keys) : h.keys[i] = k

EntryOf(h, k) == h.paths[KeyIndex(h, k)]

\* ------------------------------------------------- IEEE 754 binary64
\* The metric values, the averages and the threshold bound are JS numbers.
\* A non-negative double is [m, e], standing for m * 2^e with m < 2^53 (or
\* m = 2^53 after a rounding carry); m is a natural number written in limbs
\* of LimbBits bits, least significant first, without leading zero limbs.
LimbBits == 14
LimbBase == 2^LimbBits
MantissaBits == 53

RECURSIVE BigFromNat(_)
BigFromNat(n) == IF n = 0 THEN <<>> ELSE <<n % LimbBase>> \o BigFromNat(n \div LimbBase)

RECURSIVE BigAddCarry(_, _, _)
BigAddCarry(x, y, c) ==
  IF x = <<>> /\ y = <<>> THEN (IF c = 0 THEN <<>> ELSE <<c>>)
  ELSE LET a == IF x = <<>> THEN 0 ELSE Head(x)
           b == IF y = <<>> THEN 0 ELSE Head(y)
           t == a + b + c
       IN <<t % LimbBase>>
            \o BigAddCarry(IF x = <<>> THEN <<>> ELSE Tail(x),
                           IF y = <<>> THEN <<>> ELSE Tail(y), t \div LimbBase)

BigAdd(x, y) == BigAddCarry(x, y, 0)

\* x - y - c for x >= y + c, leading zero limbs kept
RECURSIVE BigSubBorrow(_, _, _)
BigSubBorrow(x, y, c) ==
  IF x = <<>> THEN <<>>
  ELSE LET t == Head(x) - (IF y = <<>> THEN 0 ELSE Head(y)) - c
       IN <<t % LimbBase>>
            \o BigSubBorrow(Tail(x), IF y = <<>> THEN <<>> ELSE Tail(y),
                            IF t < 0 THEN 1 ELSE 0)

\* x * k for 0 < k <= LimbBase
RECURSIVE BigMulSmallCarry(_, _, _)
BigMulSmallCarry(x, k, c) ==
  IF x = <<>> THEN (IF c = 0 THEN <<>> ELSE <<c>>)
  ELSE LET t == Head(x) * k + c
       IN <<t % LimbBase>> \o BigMulSmallCarry(Tail(x), k, t \div LimbBase)

BigMulSmall(x, k) == BigMulSmallCarry(x, k, 0)

\* x * LimbBase^n
BigShiftLimbs(x, n) == IF x = <<>> THEN <<>> ELSE [i \in 1..n |-> 0] \o x

RECURSIVE BigMul(_, _)
BigMul(x, y) ==
  IF x = <<>> \/ y = <<>> THEN <<>>
  ELSE BigAdd(BigMulSmall(x, Head(y)), BigShiftLimbs(BigMul(x, Tail(y)), 1))

\* x * 2^s
BigShl(x, s) ==
  BigShiftLimbs(BigMulSmall(x, 2^(s % LimbBits)), s \div LimbBits)

RECURSIVE BigStrip(_)
BigStrip(x) ==
  IF x # <<>> /\ x[Len(x)] = 0 THEN BigStrip(SubSeq(x, 1, Len(x) - 1)) ELSE x

\* floor(x / 2^s)
BigShr(x, s) ==
  LET a == s \div LimbBits
      b == s % LimbBits
      n == Len(x) - a
  IN IF n <= 0 THEN <<>>
     ELSE BigStrip([i \in 1..n |->
                      (x[a + i] \div 2^b)
                        + (IF i < n THEN (x[a + i + 1] % 2^b) * 2^(LimbBits - b)
                           ELSE 0)])

\* bit i of x (bit 0 is the least significant)
BigBit(x, i) ==
  IF i \div LimbBits >= Len(x) THEN 0
  ELSE (x[(i \div LimbBits) + 1] \div 2^(i % LimbBits)) % 2

\* some bit of x below bit i is set
BigAnyBelow(x, i) ==
  \/ \E j \in 1..(i \div LimbBits) : j <= Len(x) /\ x[j] # 0
  \/ /\ i \div LimbBits < Len(x)
     /\ x[(i \div LimbBits) + 1] % 2^(i % LimbBits) # 0

RECURSIVE NatBitLen(_)
NatBitLen(n) == IF n = 0 THEN 0 ELSE 1 + NatBitLen(n \div 2)

BigBitLen(x) ==
  IF x = <<>> THEN 0 ELSE (Len(x) - 1) * LimbBits + NatBitLen(x[Len(x)])

\* -1, 0, 1 as x is below, equal to, above y
BigCmp(x, y) ==
  IF Len(x) # Len(y) THEN (IF Len(x) < Len(y) THEN -1 ELSE 1)
  ELSE IF x = y THEN 0
  ELSE LET top == CHOOSE i \in 1..Len(x) :
                    x[i] # y[i] /\ \A j \in (i + 1)..Len(x) : x[j] = y[j]
       IN IF x[top] < y[top] THEN -1 ELSE 1

\* [q, r] with x = q * d + r, for 0 < d <= LimbBase
BigDivSmall(x, d) ==
  LET R[i \in 1..(Len(x) + 1)] ==
        IF i = Len(x) + 1 THEN 0 ELSE (R[i + 1] * LimbBase + x[i]) % d
  IN [q |-> BigStrip([i \in 1..Len(x) |-> (R[i + 1] * LimbBase + x[i]) \div d]),
      r |-> R[1]]

Double(m, e) == [m |-> m, e |-> e]

\* what rounding to nearest, ties to even, adds to floor(m / 2^s), s > 0
RoundingCarry(m, s) ==
  IF /\ BigBit(m, s - 1) = 1
     /\ (BigAnyBelow(m, s - 1) \/ BigBit(m, s) = 1)
  THEN <<1>> ELSE <<>>

\* m * 2^e with the s lowest bits of m rounded away
RoundExcess(m, e, s) ==
  IF s <= 0 THEN Double(m, e)
  ELSE Double(BigAdd(BigShr(m, s), RoundingCarry(m, s)), e + s)

\* round to nearest, ties to even, onto 53 bits of mantissa
RoundToDouble(m, e) == RoundExcess(m, e, BigBitLen(m) - MantissaBits)

\* an integer-valued number below 2^31
DoubleFromInt(n) == Double(BigFromNat(n), 0)

\* a + b, or a - b (for a >= b) when `minus`
BigAddSigned(a, minus, b) ==
  IF minus THEN BigStrip(BigSubBorrow(a, b, 0)) ELSE BigAdd(a, b)

\* x + y, or x - y (for x >= y) when `minus`: x plus a number of either sign
DoubleAddSigned(x, minus, y) ==
  LET e == IF x.e <= y.e THEN x.e ELSE y.e
  IN RoundToDouble(BigAddSigned(BigShl(x.m, x.e - e), minus,
                                BigShl(y.m, y.e - e)), e)

DoubleAdd(x, y) == DoubleAddSigned(x, FALSE, y)

DoubleMul(x, y) == RoundToDouble(BigMul(x.m, y.m), x.e + y.e)

\* x / d for an integer-valued divisor 0 < d <= LimbBase: the quotient is
\* taken to DivGuardBits more bits than the mantissa holds, the last bit
\* telling whether anything is left of the dividend
DivGuardBits == 5 * LimbBits
StickyRound(qr, e) ==
  RoundToDouble(BigAdd(BigShl(qr.q, 1), IF qr.r = 0 THEN <<>> ELSE <<1>>), e)

DoubleDivInt(x, d) ==
  StickyRound(BigDivSmall(BigShl(x.m, DivGuardBits), d), x.e - DivGuardBits - 1)

\* x > y
DoubleGt(x, y) ==
  LET e == IF x.e <= y.e THEN x.e ELSE y.e
  IN BigCmp(BigShl(x.m, x.e - e), BigShl(y.m, y.e - e)) = 1

\* values.reduce((a, b) => a + b, 0)
RECURSIVE DoubleSum(_, _)
DoubleSum(acc, values) ==
  IF values = <<>> THEN acc
  ELSE DoubleSum(DoubleAdd(acc, DoubleFromInt(Head(values))), Tail(values))

\* ------------------------------------------------------------- regression
\* calculateAverage: n = 0 is the null result, else avg is the double
\* sum / values.length
calculateAverage(runs, metric) ==
  LET present == SelectSeq(runs, LAMBDA r : r.metrics[metric] # Absent)
      values == [i \in 1..Len(present) |-> present[i].metrics[metric]]
  IN [n |-> Len(values),
      avg |-> IF Len(values) = 0 THEN DoubleFromInt(0)
              ELSE DoubleDivInt(DoubleSum(DoubleFromInt(0), values), Len(values))]

\* |n| as a number
DoubleAbsInt(n) == DoubleFromInt(IF n < 0 THEN -n ELSE n)

\* x is a number above 0
DoubleIsPositive(x) == x.m # <<>>

\* current > avg * (1 + thresholdPercent / 100), each operation rounded;
\* thresholdPercent is an integer >= -100, so that no operand is below 0
\* (the quotient of a negative percentage is the negated quotient of its
\* absolute value, rounding being symmetric)
ExceedsThreshold(current, avg, thresholdPercent) ==
  DoubleGt(DoubleFromInt(current),
           DoubleMul(avg.avg,
                     DoubleAddSigned(DoubleFromInt(1), thresholdPercent < 0,
                                     DoubleDivInt(DoubleAbsInt(thresholdPercent),
                                                  100))))

\* `${(((current - avg) / avg) * 100).toFixed(1)}%`: "percent" stands for
\* the text of a finite number; a division by an avg of 0 gives the text of
\* NaN for 0 / 0 and of Infinity otherwise
PercentText(current, avg) ==
  IF DoubleIsPositive(avg) THEN "percent"
  ELSE IF current = 0 THEN "NaN%" ELSE "Infinity%"

\* a percentChange computed whatever avg is
percentChange_Unguarded(current, avg) == PercentText(current, avg)

\* avg > 0 ? `${...}%` : the em dash, written "dash" here
percentChange(current, avg) ==
  IF DoubleIsPositive(avg) THEN PercentText(current, avg) ELSE "dash"

\* detectRegressions(metrics, entry, thresholdPercent, windowSize):
\* `runs` is entry?.runs ?? []
\* one iteration of `for (const metric of METRIC_KEYS)`: the regression to
\* push, `push` telling whether the iteration reaches the push
MetricCheck(metric, current, avg, thresholdPercent) ==
  [push |-> /\ current # Absent
            /\ avg.n > 0
            /\ ExceedsThreshold(current, avg, thresholdPercent),
   metric |-> metric, current |-> current, avg |-> avg.avg,
   percentChange |-> percentChange(current, avg.avg)]

Pushed(checks) ==
  [j \in 1..Len(checks) |->
     [metric |-> checks[j].metric, current |-> checks[j].current,
      avg |-> checks[j].avg, percentChange |-> checks[j].percentChange]]

\* a detector without the minimum on the number of runs in the window
detectRegressions_NoMinimum(metrics, runs, thresholdPercent, windowSize) ==
  LET recent == SliceLast(runs, windowSize)
  IN Pushed(SelectSeq(
       [i \in 1..Len(METRIC_KEYS) |->
          MetricCheck(METRIC_KEYS[i], metrics[METRIC_KEYS[i]],
                      calculateAverage(recent, METRIC_KEYS[i]),
                      thresholdPercent)],
       LAMBDA c : c.push))

detectRegressions(metrics, runs, thresholdPercent, windowSize) ==
  LET recent == SliceLast(runs, windowSize)
  IN IF Len(recent) < MIN_RUNS_FOR_REGRESSION THEN <<>>
     ELSE Pushed(SelectSeq(
            [i \in 1..Len(METRIC_KEYS) |->
               MetricCheck(METRIC_KEYS[i], metrics[METRIC_KEYS[i]],
                           calculateAverage(recent, METRIC_KEYS[i]),
                           thresholdPercent)],
            LAMBDA c : c.push))

\* ------------------------------------------------------------------- URLs
\* A URL string as WHATWG `new URL` sees it: kind "empty" is the empty
\* string, "invalid" a string `new URL` rejects, "ok" a parsed URL.
NoUrl == [kind |-> "empty", host |-> "", path |-> "", query |-> ""]

\* extractUrl: requestedUrl || finalUrl || ""
extractUrl(lhr) ==
  IF lhr.requestedUrl.kind # "empty" THEN lhr.requestedUrl
  ELSE IF lhr.finalUrl.kind # "empty" THEN lhr.finalUrl
  ELSE NoUrl

\* extractPathname: new URL(url).pathname || "/", "/" when the URL throws
extractPathname(url) ==
  IF url.kind = "ok" THEN (IF url.path = "" THEN "/" ELSE url.path) ELSE "/"

\* ------------------------------------------------------- metric aggregator
\* values.sort((a, b) => a - b)
RECURSIVE SortAsc(_)
SortAsc(s) ==
  IF s = <<>> THEN <<>>
  ELSE LET m == CHOOSE i \in 1..Len(s) : \A j \in 1..Len(s) : s[i] <= s[j]
       IN <<s[m]>> \o SortAsc(SubSeq(s, 1, m - 1) \o SubSeq(s, m + 1, Len(s)))

\* values[Math.floor(values.length / 2)] of the sorted present values
MedianOf(allMetrics, key) ==
  LET present == SelectSeq(allMetrics, LAMBDA m : m[key] # Absent)
      values == SortAsc([i \in 1..Len(present) |-> present[i][key]])
  IN IF Len(values) > 0 THEN values[(Len(values) \div 2) + 1] ELSE Absent

medianMetrics(allMetrics) ==
  IF Len(allMetrics) = 1 THEN allMetrics[1]
  ELSE [key \in MetricKeySet |-> MedianOf(allMetrics, key)]

\* ----------------------------------------------- run(): the artifact loop
\* lhrsByUrl of one artifact: a Map from url to {pathname, allMetrics}, in
\* first-seen order; an unparseable file or one without a URL is skipped
LhrsByUrl(lhrs) ==
  LET G[i \in 0..Len(lhrs)] ==
        IF i = 0 THEN <<>>
        ELSE LET prev == G[i - 1]
                 lhr == lhrs[i]
                 url == extractUrl(lhr)
             IN IF ~lhr.parsed \/ url.kind = "empty" THEN prev
                ELSE IF \E j \in 1..Len(prev) : prev[j].url = url
                THEN [j \in 1..Len(prev) |->
                        IF prev[j].url = url
                        THEN [prev[j] EXCEPT !.allMetrics = Append(@, lhr.metrics)]
                        ELSE prev[j]]
                ELSE Append(prev, [url |-> url,
                                   pathname |-> extractPathname(url),
                                   allMetrics |-> <<lhr.metrics>>])
  IN G[Len(lhrs)]

\* the raw items one artifact contributes; reportLink plays no part in any
\* decision of run() and is left out
\* a scoping that attaches every failed assertion to every URL
AppliesTo_Every(a, url) == TRUE

\* !a.url || a.url === url
AppliesTo(a, url) == a.url.kind = "empty" \/ a.url = url

RawOfArtifact(artifact) ==
  LET failedAssertions == SelectSeq(artifact.assertions, LAMBDA a : ~a.passed)
      byUrl == LhrsByUrl(artifact.lhrs)
  IN [j \in 1..Len(byUrl) |->
        [profile |-> artifact.profile,
         url |-> byUrl[j].url,
         pathname |-> byUrl[j].pathname,
         metrics |-> medianMetrics(byUrl[j].allMetrics),
         runMetrics |-> byUrl[j].allMetrics,
         assertions |-> SelectSeq(failedAssertions,
                          LAMBDA a : AppliesTo(a, byUrl[j].url))]]

RECURSIVE CollectRaw(_)
CollectRaw(artifacts) ==
  IF artifacts = <<>> THEN <<>>
  ELSE RawOfArtifact(Head(artifacts)) \o CollectRaw(Tail(artifacts))

\* --------------------------------------------------- run(): the fold
historyKey(r) == <<r.profile, r.pathname>>

\* one iteration of `for (const r of raw)`: `enabled` is `history != null`
FoldItem(acc, r, enabled, now, thresholdPercent) ==
  LET key == historyKey(r)
      h == acc.history
      known == enabled /\ HasKey(h, key)
      regressions ==
        IF enabled
        THEN detectRegressions(r.metrics,
                               IF known THEN EntryOf(h, key).runs ELSE <<>>,
                               thresholdPercent, DefaultWindowSize)
        ELSE <<>>
      consecutiveFailures == IF known THEN EntryOf(h, key).consecutiveFailures ELSE 0
      hasFailed == Len(regressions) > 0 \/ Len(r.assertions) > 0
      newConsecutive == IF hasFailed THEN consecutiveFailures + 1 ELSE 0
      h1 == IF known THEN h
            ELSE [h EXCEPT !.keys = Append(@, key),
                           !.paths = Append(@, [consecutiveFailures |-> 0,
                                                lastSeen |-> now,
                                                runs |-> <<>>])]
      i == KeyIndex(h1, key)
      h2 == [h1 EXCEPT !.paths[i] =
               [consecutiveFailures |-> newConsecutive,
                lastSeen |-> now,
                runs |-> Append(@.runs, [metrics |-> r.metrics, timestamp |-> now])]]
  IN [history |-> IF enabled THEN h2 ELSE h,
      activeKeys |-> acc.activeKeys \cup {key},
      results |-> Append(acc.results,
                    [url |-> r.url, pathname |-> r.pathname, profile |-> r.profile,
                     metrics |-> r.metrics, runMetrics |-> r.runMetrics,
                     regressions |-> regressions, assertions |-> r.assertions,
                     consecutiveFailures |-> newConsecutive,
                     passed |-> ~hasFailed])]

Fold(history, raw, enabled, now, thresholdPercent) ==
  LET F[i \in 0..Len(raw)] ==
        IF i = 0 THEN [history |-> history, activeKeys |-> {}, results |-> <<>>]
        ELSE FoldItem(F[i - 1], raw[i], enabled, now, thresholdPercent)
  IN F[Len(raw)]

\* a UrlResult that passes as soon as one of its profiles does
UrlPassed_Some(profiles) == \E k \in 1..Len(profiles) : profiles[k].passed

\* u.profiles.every((p) => p.passed)
UrlPassed(profiles) == \A k \in 1..Len(profiles) : profiles[k].passed

\* urlMap and `urls`: the ProfileResults nested under their url, the urls in
\* the order in which they were first seen
UrlResults(results) ==
  LET G[i \in 0..Len(results)] ==
        IF i = 0 THEN <<>>
        ELSE IF \E j \in 1..Len(G[i - 1]) : G[i - 1][j].url = results[i].url
        THEN [j \in 1..Len(G[i - 1]) |->
                IF G[i - 1][j].url = results[i].url
                THEN [G[i - 1][j] EXCEPT !.profiles = Append(@, results[i])]
                ELSE G[i - 1][j]]
        ELSE Append(G[i - 1], [url |-> results[i].url,
                               pathname |-> results[i].pathname,
                               profiles |-> <<results[i]>>])
  IN [j \in 1..Len(G[Len(results)]) |->
        [url |-> G[Len(results)][j].url,
         pathname |-> G[Len(results)][j].pathname,
         profiles |-> G[Len(results)][j].profiles,
         passed |-> UrlPassed(G[Len(results)][j].profiles)]]

\* analysis.passed: urls.every((u) => u.passed)
AnalysisPassed(urls) == \A i \in 1..Len(urls) : urls[i].passed

\* ------------------------------------------- the history file as JSON text
\* JSON.stringify(history, null, 2) as the chunks a write puts on disk one
\* after the other: the opening of the document with its scalar fields, one
\* chunk per entry of `paths` in insertion order, the closing braces.
NoKey == <<"", "">>
NoEntry == [consecutiveFailures |-> 0, lastSeen |-> 0, runs |-> <<>>]

OpenChunk(lastUpdated) ==
  [t |-> "open", lastUpdated |-> lastUpdated, key |-> NoKey, entry |-> NoEntry]
EntryChunk(key, entry) ==
  [t |-> "entry", lastUpdated |-> 0, key |-> key, entry |-> entry]
CloseChunk == [t |-> "close", lastUpdated |-> 0, key |-> NoKey, entry |-> NoEntry]
\* text that is no JSON at all
GarbageChunk == [t |-> "garbage", lastUpdated |-> 0, key |-> NoKey, entry |-> NoEntry]
\* the complete document {"version": 1, "lastUpdated": "", "paths": null}
NullPathsChunk ==
  [t |-> "nullpaths", lastUpdated |-> 0, key |-> NoKey, entry |-> NoEntry]

JSONStringify(h) ==
  <<OpenChunk(h.lastUpdated)>>
    \o [i \in 1..Len(h.keys) |-> EntryChunk(h.keys[i], h.paths[i])]
    \o <<CloseChunk>>

\* a parser that accepts a document whose end is missing
JSONParse_Lenient(text) ==
  IF Len(text) >= 1 /\ text[1].t = "open"
  THEN LET body == SelectSeq(Tail(text), LAMBDA c : c.t = "entry")
       IN [ok |-> TRUE, pathsNull |-> FALSE,
           value |-> [lastUpdated |-> text[1].lastUpdated,
                      keys |-> [i \in 1..Len(body) |-> body[i].key],
                      paths |-> [i \in 1..Len(body) |-> body[i].entry]]]
  ELSE [ok |-> FALSE, pathsNull |-> FALSE, value |-> EmptyHistory]

\* JSON.parse: throws (ok = FALSE) unless the text is one complete document;
\* pathsNull tells that the document's `paths` is null, `value` then holding
\* the other fields only
JSONParse(text) ==
  IF /\ Len(text) >= 2
     /\ text[1].t = "open"
     /\ text[Len(text)].t = "close"
     /\ \A i \in 2..(Len(text) - 1) : text[i].t = "entry"
  THEN [ok |-> TRUE, pathsNull |-> FALSE,
        value |-> [lastUpdated |-> text[1].lastUpdated,
                   keys |-> [i \in 1..(Len(text) - 2) |-> text[i + 1].key],
                   paths |-> [i \in 1..(Len(text) - 2) |-> text[i + 1].entry]]]
  ELSE IF text = <<NullPathsChunk>>
  THEN [ok |-> TRUE, pathsNull |-> TRUE, value |-> EmptyHistory]
  ELSE [ok |-> FALSE, pathsNull |-> FALSE, value |-> EmptyHistory]

\* how a call ends: by a throw, or by returning a History whose `paths` may
\* be null
Thrown == [threw |-> TRUE, value |-> EmptyHistory, pathsNull |-> FALSE]
Returned(h, pathsNull) == [threw |-> FALSE, value |-> h, pathsNull |-> pathsNull]

\* a loadHistory whose catch block throws the error again
loadHistoryCatch_Rethrow(attempt) == attempt

\* the catch block of loadHistory: warn, return a fresh empty document
loadHistoryCatch(attempt) ==
  IF attempt.threw THEN Returned(EmptyHistory, FALSE) ELSE attempt

\* loadHistory(historyPath) as a call; readError: readFileSync throws on a
\* path that exists (a directory, no permission)
loadHistoryCall(historyPath, file, readError) ==
  IF historyPath = "" \/ ~file.exists THEN Returned(EmptyHistory, FALSE)
  ELSE loadHistoryCatch(
         IF readError THEN Thrown
         ELSE LET data == JSONParse(file.text)
              IN IF data.ok THEN Returned(data.value, data.pathsNull)
                 ELSE Thrown)

\* loadHistory(historyPath) against the file as it is on disk right now
loadHistory(file) == loadHistoryCall("history.json", file, FALSE).value

\* the trim loop of saveHistory and the lastUpdated stamp
TrimRuns(h, maxRunsPerKey) ==
  [h EXCEPT !.paths =
     [i \in 1..Len(h.paths) |->
        IF Len(h.paths[i].runs) > maxRunsPerKey
        THEN [h.paths[i] EXCEPT !.runs = SliceLast(@, maxRunsPerKey)]
        ELSE h.paths[i]]]

\* a stale test that also takes an entry last seen exactly at the cutoff
IsStale_Inclusive(entry, now, staleDays) ==
  entry.lastSeen = Absent \/ entry.lastSeen <= now - staleDays

\* cleanupStalePaths: time is counted in days; a lastSeen that Date cannot
\* parse is Absent
IsStale(entry, now, staleDays) ==
  entry.lastSeen = Absent \/ entry.lastSeen < now - staleDays

cleanupStalePaths(h, activeKeys, staleDays, now) ==
  LET Kept(i) == h.keys[i] \in activeKeys \/ ~IsStale(h.paths[i], now, staleDays)
      idx == SelectSeq([i \in 1..Len(h.keys) |-> i], Kept)
  IN [history |-> [h EXCEPT !.keys = [j \in 1..Len(idx) |-> h.keys[idx[j]]],
                            !.paths = [j \in 1..Len(idx) |-> h.paths[idx[j]]]],
      removed |-> SelectSeq(h.keys, LAMBDA k : ~Kept(KeyIndex(h, k)))]

\* =========================================================================
\* Inputs of the report invocations
\* =========================================================================
Procs == {1, 2}          \* process ids of the invocations sharing the file

Ux1 == [kind |-> "ok", host |-> "a.test", path |-> "/x", query |-> "v=1"]
Ux2 == [kind |-> "ok", host |-> "a.test", path |-> "/x", query |-> "v=2"]
Uy == [kind |-> "ok", host |-> "a.test", path |-> "/y", query |-> ""]

\* snapshots that differ in first-contentful-paint only
Snapshot(fcp) ==
  [k \in MetricKeySet |->
     IF k = "first-contentful-paint" THEN fcp
     ELSE IF k = "cumulative-layout-shift" THEN 0
     ELSE IF k = "interactive" THEN Absent
     ELSE 2000]

Lhr(url, fcp) ==
  [parsed |-> TRUE, requestedUrl |-> url, finalUrl |-> url, metrics |-> Snapshot(fcp)]
BrokenLhr ==
  [parsed |-> FALSE, requestedUrl |-> NoUrl, finalUrl |-> NoUrl, metrics |-> Snapshot(0)]

Assertion(level, passed, url) == [level |-> level, passed |-> passed, url |-> url]

Artifact(profile, lhrs, assertions) ==
  [profile |-> profile, lhrs |-> lhrs, assertions |-> assertions]

\* what discoverArtifacts may return in a cycle: nothing; one passing URL;
\* one URL slower than its history; two URLs that share the pathname /x, one
\* of them with a failed assertion
ArtifactInputs ==
  { <<>>,
    <<Artifact("mobile", <<Lhr(Ux1, 1000)>>, <<>>)>>,
    <<Artifact("mobile", <<Lhr(Ux1, 1200), BrokenLhr>>,
               <<Assertion("warn", TRUE, NoUrl)>>)>>,
    <<Artifact("mobile", <<Lhr(Ux1, 1000), Lhr(Ux2, 1000)>>,
               <<Assertion("error", FALSE, Ux1)>>)>> }

\* parseConfig: the defaults, and a configuration with a short retention
DefaultConfig ==
  [historyEnabled |-> TRUE, regressionThreshold |-> 10, maxHistoryRuns |-> 100,
   cleanupStalePaths |-> FALSE, stalePathDays |-> 30]
ShortConfig ==
  [historyEnabled |-> TRUE, regressionThreshold |-> 10, maxHistoryRuns |-> 2,
   cleanupStalePaths |-> TRUE, stalePathDays |-> 1]
Configs == {DefaultConfig, ShortConfig}

\* a history document left by earlier cycles: two runs for mobile:/x and a
\* consecutive-failure count of 5
SeedHistory ==
  [lastUpdated |-> 0,
   keys |-> << <<"mobile", "/x">> >>,
   paths |-> <<[consecutiveFailures |-> 5, lastSeen |-> 0,
                runs |-> <<[metrics |-> Snapshot(1000), timestamp |-> 0],
                           [metrics |-> Snapshot(1000), timestamp |-> 0]>>]>>]

InitialFiles ==
  { [exists |-> FALSE, text |-> <<>>],
    [exists |-> TRUE, text |-> JSONStringify(SeedHistory)] }

\* =========================================================================
\* State
\* =========================================================================
VARIABLES
  histFile,     \* the history file: [exists, text]
  lockFile,     \* `{path}.lock`: 0 when absent, else the pid written into it
  now,          \* the wall clock, in days
  config,       \* parseConfig() of the workflow the invocations belong to
  pc,           \* where each invocation is in run() / saveHistory()
  artifacts,    \* discoverArtifacts() of each invocation
  history,      \* the in-memory History of each invocation
  results,      \* the ProfileResults of each invocation's fold
  activeKeys,   \* the keys each invocation processed
  cycle,        \* the time each invocation's cycle started
  attempt,      \* the loop variable of acquireLock
  wpos,         \* chunks of the document written so far by writeFileSync
  outcome,      \* how the invocation's saveHistory ended
  unlink,       \* what releaseLock's unlinkSync did in the current call
  lastComplete, \* the last document a save wrote in full (or found on disk)
  sawPartial,   \* the invocation loaded a file cut short by a crashed writer
  issues,       \* the repository's tracking issues: [open, labelled]
  repoLabels,   \* the labels that exist in the repository
  ipc,          \* where manageIssue is
  analysisPassed, \* analysis.passed handed to manageIssue
  existingIssue,  \* what findOpenIssue returned (0 is null)
  labelIdx,     \* the loop position of ensureLabels in LABELS
  ensured,      \* the labels ensureLabels has collected
  calls,        \* the API calls manageIssue has made in this cycle
  threw,        \* the current manageIssue ended by a throwing API call
  issueCycles,  \* report cycles run against the issue tracker
  everMissed,   \* some lookup returned null while a tracking issue was open
  fnCall,       \* a function call: the function's name and its arguments
  fnRet,        \* what the call returned
  fnDone,       \* the call has returned
  runConfig,    \* parseConfig() of the run() that SpecRun follows
  runFile,      \* the history file that run() finds: [exists, text]
  discovered,   \* what discoverArtifacts returned
  rpc,          \* where that run() is
  runLoaded,    \* what loadHistory returned (`history`)
  runRaw,       \* the raw per-profile and URL items (`raw`)
  runAnalysis,  \* the fold's outcome: results, history, passed, hasRegressions
  warnings,     \* the core.warning calls made
  failed,       \* core.setFailed was called
  summaryWritten, \* core.summary was written
  outputs,      \* the names given to core.setOutput
  called,       \* which of loadHistory, saveHistory, manageIssue were called
  saveOutcome,  \* how saveHistory ended: "none", "ok", "threw"
  issueOutcome  \* how manageIssue ended: "none", "ok", "threw"

storeVars == <<histFile, lockFile, now, config, pc, artifacts, history, results,
               activeKeys, cycle, attempt, wpos, outcome, unlink, lastComplete,
               sawPartial>>
issueVars == <<issues, repoLabels, ipc, analysisPassed, existingIssue, labelIdx,
               ensured, calls, threw, issueCycles, everMissed>>
fnVars == <<fnCall, fnRet, fnDone>>
runVars == <<runConfig, runFile, discovered, rpc, runLoaded, runRaw, runAnalysis,
             warnings, failed, summaryWritten, outputs, called, saveOutcome, issueOutcome>>
vars == <<storeVars, issueVars, fnVars, runVars>>

InitStore ==
  /\ histFile \in InitialFiles
  /\ lockFile = 0
  /\ now = 0
  /\ config \in Configs
  /\ pc = [p \in Procs |-> "idle"]
  /\ artifacts = [p \in Procs |-> <<>>]
  /\ history = [p \in Procs |-> EmptyHistory]
  /\ results = [p \in Procs |-> <<>>]
  /\ activeKeys = [p \in Procs |-> {}]
  /\ cycle = [p \in Procs |-> 0]
  /\ attempt = [p \in Procs |-> 0]
  /\ wpos = [p \in Procs |-> 0]
  /\ outcome = [p \in Procs |-> "none"]
  /\ unlink = [p \in Procs |-> "none"]
  /\ lastComplete = loadHistory(histFile)
  /\ sawPartial = [p \in Procs |-> FALSE]

InitIssue ==
  /\ issues = <<>>
  /\ repoLabels = {}
  /\ ipc = "idle"
  /\ analysisPassed = TRUE
  /\ existingIssue = 0
  /\ labelIdx = 1
  /\ ensured = <<>>
  /\ calls = <<>>
  /\ threw = FALSE
  /\ issueCycles = 0
  /\ everMissed = FALSE

\* no function call under way
InitFn ==
  /\ fnCall = [fn |-> "none"]
  /\ fnRet = [fn |-> "none"]
  /\ fnDone = FALSE

NoAnalysis ==
  [results |-> <<>>, urls |-> <<>>, history |-> EmptyHistory, activeKeys |-> {},
   passed |-> TRUE, hasRegressions |-> FALSE]

\* run() before its first statement has had an effect
InitRunState ==
  /\ rpc = "start"
  /\ runLoaded = Returned(EmptyHistory, FALSE)
  /\ runRaw = <<>>
  /\ runAnalysis = NoAnalysis
  /\ warnings = {}
  /\ failed = FALSE
  /\ summaryWritten = FALSE
  /\ outputs = {}
  /\ called = {}
  /\ saveOutcome = "none"
  /\ issueOutcome = "none"

InitRun ==
  /\ runConfig = DefaultConfig
  /\ runFile = [exists |-> FALSE, text |-> <<>>]
  /\ discovered = <<>>
  /\ InitRunState

Init == InitStore /\ InitIssue /\ InitFn /\ InitRun

\* =========================================================================
\* run(): one report invocation, cut at its file-system calls
\* =========================================================================
\* what the synchronous part of run() computes from the artifacts and the
\* history it loaded: the artifact loop, the fold, the stale-path cleanup
Analysis(loaded, arts, cfg, started) ==
  LET f == Fold(loaded, CollectRaw(arts), cfg.historyEnabled, started,
                cfg.regressionThreshold)
  IN [results |-> f.results,
      activeKeys |-> f.activeKeys,
      history |-> IF cfg.historyEnabled /\ cfg.cleanupStalePaths
                  THEN cleanupStalePaths(f.history, f.activeKeys,
                                         cfg.stalePathDays, started).history
                  ELSE f.history]

\* run() from parseConfig to the call of saveHistory: discoverArtifacts with
\* the no-artifact exit, loadHistory, the fold.  Nothing but the read of the
\* history file touches shared state, so the stretch is one step.
LoadAndAnalyze(p) ==
  /\ pc[p] = "idle"
  /\ now < MaxCycles
  /\ now' = now + 1
  /\ \E arts \in ArtifactInputs :
       LET loaded == IF config.historyEnabled THEN loadHistory(histFile)
                     ELSE EmptyHistory
           a == Analysis(loaded, arts, config, now + 1)
       IN /\ artifacts' = [artifacts EXCEPT ![p] = arts]
          /\ IF Len(arts) = 0
             THEN /\ pc' = [pc EXCEPT ![p] = "idle"]
                  /\ UNCHANGED <<history, results, sawPartial>>
                  /\ activeKeys' = [activeKeys EXCEPT ![p] = {}]
             ELSE /\ pc' = [pc EXCEPT ![p] =
                       IF config.historyEnabled THEN "acquire" ELSE "report"]
                  /\ history' = [history EXCEPT ![p] = a.history]
                  /\ results' = [results EXCEPT ![p] = a.results]
                  /\ activeKeys' = [activeKeys EXCEPT ![p] = a.activeKeys]
                  /\ sawPartial' = [sawPartial EXCEPT ![p] =
                       /\ config.historyEnabled
                       /\ histFile.exists
                       /\ ~JSONParse(histFile.text).ok
                       /\ \E q \in Procs : pc[q] = "crashed"]
  /\ cycle' = [cycle EXCEPT ![p] = now + 1]
  /\ outcome' = [outcome EXCEPT ![p] = "none"]
  /\ UNCHANGED <<histFile, lockFile, config, attempt, wpos, unlink, lastComplete>>

\* the create without the exclusive flag: an existing lock is overwritten
CreateExclusive_Overwrite(p) == lockFile' = p

\* a create that takes over the lock file of a writer that no longer runs
CreateExclusive_Reclaim(p) ==
  /\ \/ lockFile = 0
     \/ \E q \in Procs : lockFile = q /\ pc[q] = "crashed"
  /\ lockFile' = p

\* writeFileSync(lockPath, String(process.pid), {flag: "wx"}) succeeding:
\* the lock file did not exist and now holds the caller's pid
CreateExclusive(p) ==
  /\ lockFile = 0
  /\ lockFile' = p

\* the loop condition off by one: `attempt <= 3`
LoopTest_OffByOne(a) == a <= LockAttempts

\* `attempt < 3`, the condition of acquireLock's for loop
LoopTest(a) == a < LockAttempts

\* `if (attempt < 2)`, the condition of the 50 ms wait
NeedsWait(a) == a < LockAttempts - 1

\* the acquisition moved inside the try block: the finally block removes the
\* lock of the other writer
GiveUp_Releases(p) ==
  /\ pc' = [pc EXCEPT ![p] = "report"]
  /\ outcome' = [outcome EXCEPT ![p] = "lockfail"]
  /\ lockFile' = 0

\* acquireLock returned false: saveHistory throws "Failed to acquire lock"
\* before it enters the try block, so the finally block does not run
GiveUp(p) ==
  /\ pc' = [pc EXCEPT ![p] = "report"]
  /\ outcome' = [outcome EXCEPT ![p] = "lockfail"]
  /\ UNCHANGED lockFile

\* attempt++ and the loop condition
NextIteration(p) ==
  /\ attempt' = [attempt EXCEPT ![p] = @ + 1]
  /\ IF LoopTest(attempt[p] + 1)
     THEN /\ pc' = [pc EXCEPT ![p] = "acquire"]
          /\ UNCHANGED <<lockFile, outcome>>
     ELSE GiveUp(p)

\* acquireLock: the body of one iteration of the loop
AcquireAttempt(p) ==
  /\ pc[p] = "acquire"
  /\ \/ \* the lock file is created: acquireLock returns true
        /\ CreateExclusive(p)
        /\ pc' = [pc EXCEPT ![p] = "locked"]
        /\ UNCHANGED <<attempt, outcome>>
     \/ \* EEXIST: wait 50 ms before the next iteration, or go on at once
        /\ lockFile # 0
        /\ IF NeedsWait(attempt[p])
           THEN /\ pc' = [pc EXCEPT ![p] = "backoff"]
                /\ UNCHANGED <<lockFile, attempt, outcome>>
           ELSE NextIteration(p)
     \/ \* any other error of the create is rethrown
        /\ pc' = [pc EXCEPT ![p] = "report"]
        /\ outcome' = [outcome EXCEPT ![p] = "lockerr"]
        /\ UNCHANGED <<lockFile, attempt>>
  /\ UNCHANGED <<histFile, now, config, artifacts, history, results, activeKeys,
                 cycle, wpos, unlink, lastComplete, sawPartial>>

\* await setTimeout(50) is over
Backoff(p) ==
  /\ pc[p] = "backoff"
  /\ NextIteration(p)
  /\ UNCHANGED <<histFile, now, config, artifacts, history, results, activeKeys,
                 cycle, wpos, unlink, lastComplete, sawPartial>>

\* the release written after the write instead of in a finally block
WriteFailed_SkipsFinally(p) ==
  /\ pc' = [pc EXCEPT ![p] = "report"]
  /\ outcome' = [outcome EXCEPT ![p] = "writeerr"]

\* an error thrown inside the try block of saveHistory reaches the finally
WriteFailed(p) ==
  /\ pc' = [pc EXCEPT ![p] = "release"]
  /\ outcome' = [outcome EXCEPT ![p] = "writeerr"]

\* the try block up to the point writeFileSync has opened (and truncated)
\* the history file; a failing mkdirSync or open goes to the finally block
OpenForWrite(p) ==
  /\ pc[p] = "locked"
  /\ LET stamped == [TrimRuns(history[p], config.maxHistoryRuns)
                       EXCEPT !.lastUpdated = now]
     IN /\ history' = [history EXCEPT ![p] = stamped]
        /\ \/ /\ histFile' = [exists |-> TRUE, text |-> <<>>]
              /\ pc' = [pc EXCEPT ![p] = "writing"]
              /\ UNCHANGED outcome
           \/ /\ WriteFailed(p)
              /\ UNCHANGED histFile
  /\ wpos' = [wpos EXCEPT ![p] = 0]
  /\ UNCHANGED <<lockFile, now, config, artifacts, results, activeKeys, cycle,
                 attempt, unlink, lastComplete, sawPartial>>

\* writeFileSync puts the next chunk of the text at its offset
WriteChunk(p) ==
  /\ pc[p] = "writing"
  /\ LET text == JSONStringify(history[p])
     IN /\ histFile' = [exists |-> TRUE,
                        text |-> SubSeq(histFile.text, 1, wpos[p])
                                   \o <<text[wpos[p] + 1]>>
                                   \o SubSeq(histFile.text, wpos[p] + 2,
                                             Len(histFile.text))]
        /\ wpos' = [wpos EXCEPT ![p] = @ + 1]
        /\ IF wpos[p] + 1 = Len(text)
           THEN /\ pc' = [pc EXCEPT ![p] = "release"]
                /\ outcome' = [outcome EXCEPT ![p] = "ok"]
                /\ lastComplete' = history[p]
           ELSE UNCHANGED <<pc, outcome, lastComplete>>
  /\ UNCHANGED <<lockFile, now, config, artifacts, history, results, activeKeys,
                 cycle, attempt, unlink, sawPartial>>

\* the finally block: releaseLock, whose unlinkSync error is swallowed
ReleaseLock(p) ==
  /\ pc[p] = "release"
  /\ \/ /\ lockFile' = 0
        /\ unlink' = [unlink EXCEPT ![p] = "ok"]
     \/ /\ UNCHANGED lockFile
        /\ unlink' = [unlink EXCEPT ![p] = "failed"]
  /\ pc' = [pc EXCEPT ![p] = "report"]
  /\ UNCHANGED <<histFile, now, config, artifacts, history, results, activeKeys,
                 cycle, attempt, wpos, outcome, lastComplete, sawPartial>>

\* the rest of run() after the save; the invocation is over and its memory
\* is gone
Report(p) ==
  /\ pc[p] = "report"
  /\ pc' = [pc EXCEPT ![p] = "idle"]
  /\ artifacts' = [artifacts EXCEPT ![p] = <<>>]
  /\ history' = [history EXCEPT ![p] = EmptyHistory]
  /\ results' = [results EXCEPT ![p] = <<>>]
  /\ attempt' = [attempt EXCEPT ![p] = 0]
  /\ wpos' = [wpos EXCEPT ![p] = 0]
  /\ unlink' = [unlink EXCEPT ![p] = "none"]
  /\ sawPartial' = [sawPartial EXCEPT ![p] = FALSE]
  /\ UNCHANGED <<histFile, lockFile, now, config, activeKeys, cycle, outcome,
                 lastComplete>>

\* the process is killed while it holds the lock
Crash(p) ==
  /\ pc[p] \in {"locked", "writing", "release"}
  /\ pc' = [pc EXCEPT ![p] = "crashed"]
  /\ UNCHANGED <<histFile, lockFile, now, config, artifacts, history, results,
                 activeKeys, cycle, attempt, wpos, outcome, unlink,
                 lastComplete, sawPartial>>

Next ==
  \/ \E p \in Procs : LoadAndAnalyze(p) /\ UNCHANGED <<issueVars, fnVars, runVars>>
  \/ \E p \in Procs : AcquireAttempt(p) /\ UNCHANGED <<issueVars, fnVars, runVars>>
  \/ \E p \in Procs : Backoff(p) /\ UNCHANGED <<issueVars, fnVars, runVars>>
  \/ \E p \in Procs : OpenForWrite(p) /\ UNCHANGED <<issueVars, fnVars, runVars>>
  \/ \E p \in Procs : WriteChunk(p) /\ UNCHANGED <<issueVars, fnVars, runVars>>
  \/ \E p \in Procs : ReleaseLock(p) /\ UNCHANGED <<issueVars, fnVars, runVars>>
  \/ \E p \in Procs : Report(p) /\ UNCHANGED <<issueVars, fnVars, runVars>>
  \/ \E p \in Procs : Crash(p) /\ UNCHANGED <<issueVars, fnVars, runVars>>

Spec == Init /\ [][Next]_vars

\* =========================================================================
\* Properties of the history store (Spec)
\* =========================================================================
Finished(p) == pc[p] = "idle" /\ outcome[p] = "ok"

HasRunAt(h, k, t) ==
  /\ HasKey(h, k)
  /\ \E i \in 1..Len(EntryOf(h, k).runs) : EntryOf(h, k).runs[i].timestamp = t

\* C1: when the invocations have all finished with a successful save (and
\* neither trimming nor cleanup is configured), the persisted history holds,
\* for every key an invocation processed, the run that invocation appended.
C1_NoLostUpdate ==
  (config = DefaultConfig /\ \A p \in Procs : Finished(p))
    => \A p \in Procs : \A k \in activeKeys[p] :
         HasRunAt(loadHistory(histFile), k, cycle[p])

HoldsLock(p) == pc[p] \in {"locked", "writing", "release"}

ActedOn(p) == pc'[p] # pc[p] \/ wpos'[p] # wpos[p]

\* C2: at most one caller at a time is between its successful
\* create-exclusive of the lock file and its release, the lock file names
\* that caller, and the history file changes only in a step of the caller
\* that holds the lock.
C2_MutualExclusion ==
  /\ [](\A p, q \in Procs : (HoldsLock(p) /\ HoldsLock(q)) => p = q)
  /\ [](\A p \in Procs : HoldsLock(p) => lockFile = p)
  /\ [][histFile' # histFile =>
          \E p \in Procs : HoldsLock(p) /\ lockFile = p /\ ActedOn(p)]_vars

\* a writer is in the middle of its write while the other caller has been
\* refused the lock and waits
C2_Witness ==
  \E p, q \in Procs : pc[p] = "writing" /\ wpos[p] > 0 /\ pc[q] = "backoff"

\* C3: acquireLock makes at most 3 create-exclusive attempts, a wait
\* preceding every attempt but the first, and is over after the third: the
\* loop variable never exceeds 3, no attempt starts at 3, and saveHistory
\* ends with the lock error exactly when three attempts have found the file.
C3_BoundedAcquire ==
  /\ [](\A p \in Procs :
          /\ attempt[p] <= LockAttempts
          /\ pc[p] \in {"acquire", "backoff"} => attempt[p] < LockAttempts
          /\ pc[p] = "backoff" => attempt[p] < LockAttempts - 1
          /\ (pc[p] = "report" /\ outcome[p] = "lockfail")
               => attempt[p] = LockAttempts)
  /\ [][\A p \in Procs :
          (pc'[p] = "acquire" /\ pc[p] # "acquire") => pc[p] \in {"idle", "backoff"}]_vars
  /\ [][\A p \in Procs :
          (pc[p] = "acquire" /\ attempt[p] = LockAttempts - 1 /\ lockFile # 0
             /\ pc'[p] # pc[p])
            => (pc'[p] = "report" /\ outcome'[p] \in {"lockfail", "lockerr"})]_vars

\* a caller has given up after three attempts while the other still holds
\* the lock
C3_Witness ==
  \E p, q \in Procs :
    /\ pc[p] = "report" /\ outcome[p] = "lockfail" /\ attempt[p] = LockAttempts
    /\ HoldsLock(q)

\* C4: a caller of saveHistory that does not get the lock writes nothing: no
\* step it takes from entering acquireLock to the lock error changes the
\* history file or the lock file of the other writer.
C4_FailedSaveWritesNothing ==
  [][\A p \in Procs :
       (/\ pc[p] \in {"acquire", "backoff"}
        /\ pc'[p] \in {"acquire", "backoff", "report"}
        /\ (pc'[p] # pc[p] \/ attempt'[p] # attempt[p]))
         => (histFile' = histFile /\ lockFile' = lockFile)]_vars

\* a caller has failed with the lock error; the other writer's lock and the
\* history file are on disk
C4_Witness ==
  \E p, q \in Procs :
    /\ pc[p] = "report" /\ outcome[p] = "lockfail"
    /\ lockFile = q /\ q # p /\ histFile.exists

Completed(p) == pc[p] = "report" /\ outcome[p] \in {"ok", "writeerr"}

\* C5 as stated: after a call of saveHistory that had the lock has returned
\* or thrown, the lock file it created no longer exists.
C5_LockRemoved ==
  \A p \in Procs : Completed(p) => lockFile # p

\* C5 as amended: before saveHistory returns or throws, also when the write
\* fails, releaseLock has tried to remove the lock file; when that unlink
\* succeeded the caller's lock file is gone.
C5_ReleaseAttempted ==
  \A p \in Procs :
    Completed(p) => /\ unlink[p] \in {"ok", "failed"}
                    /\ unlink[p] = "ok" => lockFile # p

\* a write failed, the lock was removed on the way out, and the lock is free
\* for the next caller
C5_Witness ==
  \E p \in Procs :
    pc[p] = "report" /\ outcome[p] = "writeerr" /\ unlink[p] = "ok" /\ lockFile = 0

\* C6: whatever a writer's crash leaves on disk, loadHistory returns the
\* empty document or the last document a save wrote in full, never a part
\* of a document.
C6_NoHalfWrittenLoad ==
  loadHistory(histFile) \in {EmptyHistory, lastComplete}

\* an invocation has loaded the history after a writer died in the middle of
\* its write, with a part of the document on disk
C6_Witness ==
  \E p, q \in Procs :
    /\ pc[p] = "crashed" /\ wpos[p] > 0 /\ wpos[p] < Len(JSONStringify(history[p]))
    /\ sawPartial[q]
    /\ Len(histFile.text) = wpos[p]

\* the step of invocation p that loads the history and folds the cycle's
\* results into it
FoldStep(p) == pc[p] = "idle" /\ pc'[p] = "acquire"

\* the results of the cycle that belong to key k
KeyClean(rs, k) ==
  \A i \in 1..Len(rs) :
    historyKey(rs[i]) = k =>
      Len(rs[i].regressions) = 0 /\ Len(rs[i].assertions) = 0

RunsBefore(h, k) == IF HasKey(h, k) THEN EntryOf(h, k).runs ELSE <<>>

FailuresBefore(h, k) ==
  IF HasKey(h, k) THEN EntryOf(h, k).consecutiveFailures ELSE 0

\* C9: after a report cycle with history enabled, the consecutiveFailures of
\* every (profile, pathname) key processed in the cycle is 0 when the key had
\* no regression and no scoped failed assertion in the cycle, and otherwise
\* its value before the cycle plus 1 (0 for a key seen for the first time).
C9_CounterStep ==
  [][\A p \in Procs :
       FoldStep(p) =>
         \A k \in activeKeys'[p] :
           EntryOf(history'[p], k).consecutiveFailures =
             IF KeyClean(results'[p], k) THEN 0
             ELSE FailuresBefore(loadHistory(histFile), k) + 1]_vars

\* C10: in one report cycle with history enabled every key processed gets
\* exactly one HistoryRun appended at the end of its runs, the earlier runs
\* unchanged and in order; a new key is created with exactly that one run.
C10_OneRunAppended ==
  [][\A p \in Procs :
       FoldStep(p) =>
         \A k \in activeKeys'[p] :
           LET old == RunsBefore(loadHistory(histFile), k)
               new == EntryOf(history'[p], k).runs
           IN /\ Len(new) = Len(old) + 1
              /\ SubSeq(new, 1, Len(old)) = old
              /\ Last(new).timestamp = cycle'[p]]_vars

Reverse(s) == [i \in 1..Len(s) |-> s[Len(s) + 1 - i]]

\* two history documents with the same entries under the same keys
SameEntries(h1, h2) ==
  /\ {h1.keys[i] : i \in 1..Len(h1.keys)} = {h2.keys[i] : i \in 1..Len(h2.keys)}
  /\ \A i \in 1..Len(h1.keys) : EntryOf(h2, h1.keys[i]) = h1.paths[i]

\* C11: within one report cycle distinct (profile, URL) pairs touch distinct
\* history entries, so that processing the pairs in another order changes
\* neither the resulting history nor the results.
C11_DisjointEntries ==
  [][\A p \in Procs :
       FoldStep(p) =>
         LET raw == CollectRaw(artifacts'[p])
             loaded == loadHistory(histFile)
             f == Fold(loaded, raw, TRUE, cycle'[p], config.regressionThreshold)
             g == Fold(loaded, Reverse(raw), TRUE, cycle'[p],
                       config.regressionThreshold)
         IN /\ \A i, j \in 1..Len(raw) :
                 <<raw[i].profile, raw[i].url>> # <<raw[j].profile, raw[j].url>>
                   => historyKey(raw[i]) # historyKey(raw[j])
            /\ SameEntries(f.history, g.history)
            /\ {f.results[i] : i \in 1..Len(f.results)}
                 = {g.results[i] : i \in 1..Len(g.results)}]_vars

\* =========================================================================
\* manageIssue against the issue-tracking API, one report cycle after another
\* =========================================================================
ISSUE_TITLE == "Lighthouse Performance Alert"

ApiCall(op, issue, arg) == [op |-> op, issue |-> issue, arg |-> arg]

OpenIssues == {n \in 1..Len(issues) : issues[n].open}

\* issues.listForRepo({state: "open", labels: LABELS[0]}) lists the newest
\* first; every issue of the model carries ISSUE_TITLE, so `find` takes the
\* first listed one, and `match?.number ?? null` is 0 when there is none
ListedMatch ==
  LET listed == {n \in OpenIssues : issues[n].labelled}
  IN IF listed = {} THEN 0
     ELSE CHOOSE n \in listed : \A m \in listed : m <= n

\* a manageIssue that closes the open issue without the all-clear comment
BranchAfterFind_CloseWithoutComment(passed, existing) ==
  IF ~passed THEN (IF existing # 0 THEN "comment" ELSE "labels")
  ELSE IF existing # 0 THEN "close"
  ELSE "idle"

\* the branches of manageIssue once the lookup has returned
BranchAfterFind(passed, existing) ==
  IF ~passed THEN (IF existing # 0 THEN "comment" ELSE "labels")
  ELSE IF existing # 0 THEN "allclear"
  ELSE "idle"

\* run() calls manageIssue(octokit, analysis, limit); findOpenIssue makes
\* the lookup, a throwing lookup being caught and turned into null
FindOpenIssue ==
  /\ ipc = "idle"
  /\ issueCycles < MaxIssueCycles
  /\ issueCycles' = issueCycles + 1
  /\ \E passed \in BOOLEAN, found \in {ListedMatch, 0} :
       /\ analysisPassed' = passed
       /\ existingIssue' = found
       /\ everMissed' = (everMissed \/ (found = 0 /\ OpenIssues # {}))
       /\ ipc' = BranchAfterFind(passed, found)
  /\ calls' = <<ApiCall("listForRepo", 0, "open")>>
  /\ labelIdx' = 1
  /\ ensured' = <<>>
  /\ threw' = FALSE
  /\ UNCHANGED <<issues, repoLabels>>

\* commentOnIssue(existingIssue, body) of a failing analysis
CommentOnIssue ==
  /\ ipc = "comment"
  /\ calls' = Append(calls, ApiCall("createComment", existingIssue, "failure"))
  /\ threw' \in BOOLEAN
  /\ ipc' = "idle"
  /\ UNCHANGED <<issues, repoLabels, analysisPassed, existingIssue, labelIdx,
                 ensured, issueCycles, everMissed>>

\* ensureLabels: one iteration, createLabel answering 201, 422 or an error
EnsureLabel ==
  /\ ipc = "labels"
  /\ LET label == LABELS[labelIdx]
     IN /\ calls' = Append(calls, ApiCall("createLabel", 0, label))
        /\ \/ /\ label \notin repoLabels
              /\ repoLabels' = repoLabels \cup {label}
              /\ ensured' = Append(ensured, label)
           \/ /\ label \in repoLabels
              /\ ensured' = Append(ensured, label)
              /\ UNCHANGED repoLabels
           \/ UNCHANGED <<repoLabels, ensured>>
  /\ labelIdx' = labelIdx + 1
  /\ ipc' = IF labelIdx = Len(LABELS) THEN "create" ELSE "labels"
  /\ UNCHANGED <<issues, analysisPassed, existingIssue, threw, issueCycles,
                 everMissed>>

\* issues.create({title: ISSUE_TITLE, body, labels})
CreateIssue ==
  /\ ipc = "create"
  /\ calls' = Append(calls, ApiCall("create", 0, ISSUE_TITLE))
  /\ \/ /\ issues' = Append(issues, [open |-> TRUE,
                                     labelled |-> SeqContains(ensured, LABELS[1])])
        /\ threw' = FALSE
     \/ /\ threw' = TRUE
        /\ UNCHANGED issues
  /\ ipc' = "idle"
  /\ UNCHANGED <<repoLabels, analysisPassed, existingIssue, labelIdx, ensured,
                 issueCycles, everMissed>>

\* a commentOnIssue that catches the error of createComment: manageIssue goes
\* on to closeIssue after a comment that was not posted
AllClearComment_Swallowed ==
  /\ ipc = "allclear"
  /\ calls' = Append(calls, ApiCall("createComment", existingIssue, "allclear"))
  /\ threw' \in BOOLEAN
  /\ ipc' = "close"
  /\ UNCHANGED <<issues, repoLabels, analysisPassed, existingIssue, labelIdx,
                 ensured, issueCycles, everMissed>>

\* commentOnIssue(existingIssue, "All clear") of a passing analysis
AllClearComment ==
  /\ ipc = "allclear"
  /\ calls' = Append(calls, ApiCall("createComment", existingIssue, "allclear"))
  /\ \/ /\ threw' = FALSE
        /\ ipc' = "close"
     \/ /\ threw' = TRUE
        /\ ipc' = "idle"
  /\ UNCHANGED <<issues, repoLabels, analysisPassed, existingIssue, labelIdx,
                 ensured, issueCycles, everMissed>>

\* closeIssue(existingIssue): issues.update({state: "closed"})
CloseIssue ==
  /\ ipc = "close"
  /\ calls' = Append(calls, ApiCall("update", existingIssue, "closed"))
  /\ \/ /\ issues' = [issues EXCEPT ![existingIssue].open = FALSE]
        /\ threw' = FALSE
     \/ /\ threw' = TRUE
        /\ UNCHANGED issues
  /\ ipc' = "idle"
  /\ UNCHANGED <<repoLabels, analysisPassed, existingIssue, labelIdx, ensured,
                 issueCycles, everMissed>>

NextIssue ==
  \/ FindOpenIssue /\ UNCHANGED <<storeVars, fnVars, runVars>>
  \/ CommentOnIssue /\ UNCHANGED <<storeVars, fnVars, runVars>>
  \/ EnsureLabel /\ UNCHANGED <<storeVars, fnVars, runVars>>
  \/ CreateIssue /\ UNCHANGED <<storeVars, fnVars, runVars>>
  \/ AllClearComment /\ UNCHANGED <<storeVars, fnVars, runVars>>
  \/ CloseIssue /\ UNCHANGED <<storeVars, fnVars, runVars>>

InitIssueSpec ==
  /\ Init
  /\ histFile = [exists |-> FALSE, text |-> <<>>]
  /\ config = DefaultConfig

SpecIssue == InitIssueSpec /\ [][NextIssue]_vars

\* C7: after any sequence of report cycles and whatever the outcomes of the
\* issue-API calls, the repository has at most one open tracking issue.
C7_AtMostOneOpenIssue == Cardinality(OpenIssues) <= 1

\* the API calls of one manageIssue, in order, for each combination of
\* analysis.passed and the issue the lookup returned (0: none)
ExpectedCalls(passed, existing) ==
  LET lookup == <<ApiCall("listForRepo", 0, "open")>>
  IN IF ~passed /\ existing = 0
     THEN lookup \o [i \in 1..Len(LABELS) |-> ApiCall("createLabel", 0, LABELS[i])]
                 \o <<ApiCall("create", 0, ISSUE_TITLE)>>
     ELSE IF ~passed
     THEN lookup \o <<ApiCall("createComment", existing, "failure")>>
     ELSE IF existing # 0
     THEN lookup \o <<ApiCall("createComment", existing, "allclear"),
                      ApiCall("update", existing, "closed")>>
     ELSE lookup

IsPrefix(s, t) == Len(s) <= Len(t) /\ SubSeq(t, 1, Len(s)) = s

\* C8: manageIssue chooses its calls from (analysis.passed, issue returned by
\* the lookup, a failed lookup counting as none): failed + none -> the labels,
\* then one create; failed + open -> one comment on it; passed + open -> an
\* all-clear comment, then the close of that issue; passed + none -> nothing
\* but the lookup.  The calls made so far are always a prefix of that list,
\* and the whole list once manageIssue has returned without a throw.
C8_ActionTable ==
  issueCycles > 0 =>
    LET e == ExpectedCalls(analysisPassed, existingIssue)
    IN /\ IsPrefix(calls, e)
       /\ (ipc = "idle" /\ ~threw) => calls = e

\* a passing cycle that found the open issue, commented and closed it, after
\* a failing cycle that had created it
C8_Witness ==
  /\ ipc = "idle"
  /\ ~threw
  /\ analysisPassed
  /\ existingIssue # 0
  /\ Len(calls) = 3
  /\ ~issues[existingIssue].open

\* =========================================================================
\* run() from discovery to the fail-on verdict (SpecRun)
\* =========================================================================
RunDay == 1     \* the day of the cycle

\* the history file run() may find: none, a document of earlier cycles, text
\* that is no JSON, a JSON document whose `paths` is null
RunFiles ==
  { [exists |-> FALSE, text |-> <<>>],
    [exists |-> TRUE, text |-> JSONStringify(SeedHistory)],
    [exists |-> TRUE, text |-> <<GarbageChunk>>],
    [exists |-> TRUE, text |-> <<NullPathsChunk>>] }

\* what discoverArtifacts may return: the inputs of the store, an artifact
\* whose only result file does not parse and whose assertion file reports a
\* failed error-level assertion, an artifact with a failed warn-level one;
\* two profiles on the same two URLs, one of them with a failed assertion
\* for one URL and passed ones; an artifact of two URLs with a failed
\* assertion for all URLs and one for a single URL; two URLs of the same
\* pathname, the first much slower than its history
RunArtifactInputs ==
  ArtifactInputs \cup
  { <<Artifact("mobile", <<BrokenLhr>>, <<Assertion("error", FALSE, NoUrl)>>)>>,
    <<Artifact("desktop", <<Lhr(Uy, 1000)>>, <<Assertion("warn", FALSE, NoUrl)>>)>>,
    <<Artifact("mobile", <<Lhr(Ux1, 1000), Lhr(Uy, 1000)>>,
               <<Assertion("error", FALSE, Uy), Assertion("warn", TRUE, Ux1),
                 Assertion("warn", TRUE, NoUrl)>>),
      Artifact("desktop", <<Lhr(Ux1, 1000), Lhr(Uy, 1000)>>, <<>>)>>,
    <<Artifact("desktop", <<Lhr(Ux1, 1000), Lhr(Uy, 1000)>>,
               <<Assertion("warn", FALSE, NoUrl), Assertion("error", FALSE, Uy)>>)>>,
    <<Artifact("mobile", <<Lhr(Ux1, 3000), Lhr(Ux2, 1500)>>, <<>>)>> }

\* parseConfig with fail-on, create-issues and github-token; a history path
\* that validateHistoryPath rejects leaves history disabled
FailOnValues == {"error", "warn", "never"}
RunConfigs ==
  {base @@ [failOn |-> f, createIssues |-> ci[1], githubToken |-> ci[2]] :
     base \in Configs \cup {[DefaultConfig EXCEPT !.historyEnabled = FALSE]},
     f \in FailOnValues,
     ci \in {<<TRUE, "token">>, <<TRUE, "">>, <<FALSE, "">>}}

OUTPUT_NAMES == {"results", "regressions", "has-regressions"}

\* the catch block around the whole of run(): core.setFailed(error.message)
OuterCatch ==
  /\ failed' = TRUE
  /\ rpc' = "done"

\* a run() that goes on with an empty list of artifacts
NoArtifacts_Never(arts) == FALSE

\* artifacts.length === 0
NoArtifacts(arts) == Len(arts) = 0

\* discoverArtifacts and the early exit when it found nothing
Discover ==
  /\ rpc = "start"
  /\ IF NoArtifacts(discovered)
     THEN /\ warnings' = warnings \cup {"no-artifacts"}
          /\ rpc' = "done"
     ELSE /\ rpc' = "load"
          /\ UNCHANGED warnings
  /\ UNCHANGED <<runConfig, runFile, discovered, runLoaded, runRaw, runAnalysis,
                 failed, summaryWritten, outputs, called, saveOutcome,
                 issueOutcome>>

\* validateHistoryPath, then history = historyPath ? loadHistory(...) : null
LoadHistory ==
  /\ rpc = "load"
  /\ IF runConfig.historyEnabled
     THEN \E readError \in BOOLEAN :
            LET r == loadHistoryCall("history.json", runFile, readError)
            IN /\ runLoaded' = r
               /\ called' = called \cup {"loadHistory"}
               /\ IF r.threw THEN OuterCatch
                  ELSE rpc' = "fold" /\ UNCHANGED failed
               /\ UNCHANGED warnings
     ELSE /\ warnings' = warnings \cup {"history-disabled"}
          /\ rpc' = "fold"
          /\ UNCHANGED <<runLoaded, called, failed>>
  /\ UNCHANGED <<runConfig, runFile, discovered, runRaw, runAnalysis,
                 summaryWritten, outputs, saveOutcome, issueOutcome>>

\* the artifact loop and the fold; history.paths[historyKey] throws a
\* TypeError when `paths` is null
Analyze ==
  /\ rpc = "fold"
  /\ LET r == CollectRaw(discovered)
         enabled == runConfig.historyEnabled
         f == Fold(runLoaded.value, r, enabled, RunDay, runConfig.regressionThreshold)
     IN /\ runRaw' = r
        /\ IF enabled /\ runLoaded.pathsNull /\ r # <<>>
           THEN OuterCatch /\ UNCHANGED runAnalysis
           ELSE /\ runAnalysis' =
                     [results |-> f.results,
                      history |-> f.history,
                      activeKeys |-> f.activeKeys,
                      urls |-> UrlResults(f.results),
                      passed |-> AnalysisPassed(UrlResults(f.results)),
                      hasRegressions |->
                        \E i \in 1..Len(f.results) : Len(f.results[i].regressions) > 0]
                /\ rpc' = "save"
                /\ UNCHANGED failed
  /\ UNCHANGED <<runConfig, runFile, discovered, runLoaded, warnings,
                 summaryWritten, outputs, called, saveOutcome, issueOutcome>>

\* a run() whose catch around saveHistory lets the error through
SaveFailed_Fatal ==
  /\ OuterCatch
  /\ UNCHANGED warnings

\* the catch around saveHistory: a warning, nothing else
SaveFailed ==
  /\ warnings' = warnings \cup {"save-failed"}
  /\ rpc' = "issue"
  /\ UNCHANGED failed

\* cleanupStalePaths and saveHistory.  saveHistory throws when it does not
\* get the lock or a file-system call fails; with `paths` null
\* Object.keys(history.paths) throws in cleanupStalePaths, outside the try,
\* and Object.values(history.paths) throws inside saveHistory
SaveHistory ==
  /\ rpc = "save"
  /\ IF ~runConfig.historyEnabled
     THEN /\ rpc' = "issue"
          /\ UNCHANGED <<warnings, failed, called, saveOutcome>>
     ELSE IF runConfig.cleanupStalePaths /\ runLoaded.pathsNull
     THEN /\ OuterCatch
          /\ UNCHANGED <<warnings, called, saveOutcome>>
     ELSE /\ called' = called \cup {"saveHistory"}
          /\ \E o \in (IF runLoaded.pathsNull THEN {"threw"} ELSE {"ok", "threw"}) :
               /\ saveOutcome' = o
               /\ IF o = "threw" THEN SaveFailed
                  ELSE rpc' = "issue" /\ UNCHANGED <<warnings, failed>>
  /\ UNCHANGED <<runConfig, runFile, discovered, runLoaded, runRaw, runAnalysis,
                 summaryWritten, outputs, issueOutcome>>

\* the catch around the issue management: a warning, nothing else
IssueFailed ==
  /\ warnings' = warnings \cup {"issue-failed"}
  /\ rpc' = "summary"
  /\ UNCHANGED failed

\* getOctokit and manageIssue, any of whose API calls may throw
ManageIssue ==
  /\ rpc = "issue"
  /\ IF runConfig.createIssues /\ runConfig.githubToken # ""
     THEN /\ called' = called \cup {"manageIssue"}
          /\ \E o \in {"ok", "threw"} :
               /\ issueOutcome' = o
               /\ IF o = "threw" THEN IssueFailed
                  ELSE rpc' = "summary" /\ UNCHANGED <<warnings, failed>>
     ELSE /\ warnings' = IF runConfig.createIssues
                         THEN warnings \cup {"issue-skipped"} ELSE warnings
          /\ rpc' = "summary"
          /\ UNCHANGED <<failed, called, issueOutcome>>
  /\ UNCHANGED <<runConfig, runFile, discovered, runLoaded, runRaw, runAnalysis,
                 summaryWritten, outputs, saveOutcome>>

\* core.summary.addRaw(buildSummary(analysis)).write()
WriteSummary ==
  /\ rpc = "summary"
  /\ summaryWritten' = TRUE
  /\ rpc' = "outputs"
  /\ UNCHANGED <<runConfig, runFile, discovered, runLoaded, runRaw, runAnalysis,
                 warnings, failed, outputs, called, saveOutcome, issueOutcome>>

\* the three core.setOutput calls
SetOutputs ==
  /\ rpc = "outputs"
  /\ outputs' = OUTPUT_NAMES
  /\ rpc' = "failon"
  /\ UNCHANGED <<runConfig, runFile, discovered, runLoaded, runRaw, runAnalysis,
                 warnings, failed, summaryWritten, called, saveOutcome,
                 issueOutcome>>

\* the fail-on logic over the assertions of the raw items
HasLevel(items, level) ==
  \E i \in 1..Len(items) :
    \E j \in 1..Len(items[i].assertions) : items[i].assertions[j].level = level

FailOnVerdict(items, failOn) ==
  /\ failOn # "never"
  /\ \/ failOn = "error" /\ HasLevel(items, "error")
     \/ failOn = "warn" /\ (HasLevel(items, "error") \/ HasLevel(items, "warn"))

FailOn ==
  /\ rpc = "failon"
  /\ failed' = FailOnVerdict(runRaw, runConfig.failOn)
  /\ rpc' = "done"
  /\ UNCHANGED <<runConfig, runFile, discovered, runLoaded, runRaw, runAnalysis,
                 warnings, summaryWritten, outputs, called, saveOutcome,
                 issueOutcome>>

NextRun ==
  \/ Discover /\ UNCHANGED <<storeVars, issueVars, fnVars>>
  \/ LoadHistory /\ UNCHANGED <<storeVars, issueVars, fnVars>>
  \/ Analyze /\ UNCHANGED <<storeVars, issueVars, fnVars>>
  \/ SaveHistory /\ UNCHANGED <<storeVars, issueVars, fnVars>>
  \/ ManageIssue /\ UNCHANGED <<storeVars, issueVars, fnVars>>
  \/ WriteSummary /\ UNCHANGED <<storeVars, issueVars, fnVars>>
  \/ SetOutputs /\ UNCHANGED <<storeVars, issueVars, fnVars>>
  \/ FailOn /\ UNCHANGED <<storeVars, issueVars, fnVars>>

InitRunSpec ==
  /\ InitStore
  /\ histFile = [exists |-> FALSE, text |-> <<>>]
  /\ config = DefaultConfig
  /\ InitIssue
  /\ InitFn
  /\ runConfig \in RunConfigs
  /\ runFile \in RunFiles
  /\ discovered \in RunArtifactInputs
  /\ InitRunState

SpecRun == InitRunSpec /\ [][NextRun]_vars

\* C14: whatever the history file, the assertion and links files and the
\* raw result files hold, a cycle that found artifacts recovers locally and
\* goes on to its outputs: malformed input never aborts the cycle or marks
\* the job failed (a failed job is the verdict of the fail-on policy).
C14_MalformedNeverFatal ==
  (rpc = "done" /\ discovered # <<>>) =>
    /\ summaryWritten
    /\ outputs = OUTPUT_NAMES
    /\ failed = FailOnVerdict(runRaw, runConfig.failOn)

\* C16: in a cycle that found artifacts, a failure of issue management or of
\* saveHistory is only logged as a warning: the summary is still written,
\* the three outputs are still set, and the failure alone does not mark the
\* job failed (the job fails by the verdict of the fail-on policy only).
C16_FailuresOnlyWarn ==
  (discovered # <<>> /\ (saveOutcome = "threw" \/ issueOutcome = "threw")) =>
    /\ saveOutcome = "threw" => "save-failed" \in warnings
    /\ issueOutcome = "threw" => "issue-failed" \in warnings
    /\ rpc # "done" => ~failed
    /\ rpc = "done" =>
         /\ summaryWritten
         /\ outputs = OUTPUT_NAMES
         /\ failed = FailOnVerdict(runRaw, runConfig.failOn)

\* a finished cycle in which both saveHistory and manageIssue threw and the
\* job is not marked failed
C16_Witness ==
  /\ rpc = "done"
  /\ discovered # <<>>
  /\ saveOutcome = "threw"
  /\ issueOutcome = "threw"
  /\ summaryWritten
  /\ outputs = OUTPUT_NAMES
  /\ ~failed

\* some discovered artifact has a failed assertion of one of the levels
ArtifactFailedAt(arts, levels) ==
  \E i \in 1..Len(arts) :
    \E j \in 1..Len(arts[i].assertions) :
      ~arts[i].assertions[j].passed /\ arts[i].assertions[j].level \in levels

\* C17: in a cycle that found artifacts and ran to completion the job is
\* marked failed iff failOn = error and some discovered artifact has a failed
\* assertion of level error, or failOn = warn and some discovered artifact
\* has a failed assertion of level warn or error; never with failOn = never;
\* regressions do not change the outcome.
C17_FailOnAssertions ==
  (rpc = "done" /\ discovered # <<>> /\ outputs = OUTPUT_NAMES) =>
    failed =
      ( \/ runConfig.failOn = "error" /\ ArtifactFailedAt(discovered, {"error"})
        \/ runConfig.failOn = "warn"
             /\ ArtifactFailedAt(discovered, {"warn", "error"}) )

\* C18: when artifact discovery returns no artifact the cycle emits a
\* warning and ends without marking the job failed and without loading or
\* saving history, calling the issue manager, writing a summary or setting
\* any output.
C18_NoArtifactsSoftExit ==
  discovered = <<>> =>
    /\ rpc \in {"start", "done"}
    /\ rpc = "done" => warnings = {"no-artifacts"}
    /\ ~failed
    /\ called = {}
    /\ saveOutcome = "none"
    /\ issueOutcome = "none"
    /\ ~summaryWritten
    /\ outputs = {}

\* a cycle that found nothing and has ended with its warning
C18_Witness ==
  /\ discovered = <<>>
  /\ rpc = "done"
  /\ warnings = {"no-artifacts"}
  /\ ~failed
  /\ runConfig.createIssues
  /\ runConfig.githubToken # ""

\* =========================================================================
\* Single calls of the history and regression functions (SpecFn)
\* =========================================================================
\* n runs of one entry, told apart by their timestamps 1..n
RunsNumbered(n) == [i \in 1..n |-> [metrics |-> Snapshot(1000), timestamp |-> i]]

\* a history whose first entry has n runs and whose second has two
HistoryWithRuns(n) ==
  [lastUpdated |-> 0,
   keys |-> << <<"mobile", "/x">>, <<"desktop", "/y">> >>,
   paths |-> <<[consecutiveFailures |-> 0, lastSeen |-> 0, runs |-> RunsNumbered(n)],
               [consecutiveFailures |-> 1, lastSeen |-> 0, runs |-> RunsNumbered(2)]>>]

\* the text a saveHistory that got the lock writes: the trim loop, the
\* lastUpdated stamp, JSON.stringify
saveHistoryText(h, maxRunsPerKey, stamp) ==
  JSONStringify([TrimRuns(h, maxRunsPerKey) EXCEPT !.lastUpdated = stamp])

SaveHistoryCalls ==
  {[fn |-> "saveHistory", history |-> HistoryWithRuns(n), maxRunsPerKey |-> m] :
     n \in 0..MaxRuns, m \in 0..MaxRuns}

CallSaveHistory ==
  /\ fnCall.fn = "saveHistory"
  /\ ~fnDone
  /\ fnRet' = [fn |-> "saveHistory",
               written |-> saveHistoryText(fnCall.history, fnCall.maxRunsPerKey, 1)]
  /\ fnDone' = TRUE
  /\ UNCHANGED fnCall

\* cleanupStalePaths(history, activeKeys, staleDays) at day CleanupDay: two
\* entries last seen at an unparseable date, long ago, exactly at the cutoff
\* or today; every set of active keys over the two keys and a new one
CleanupDay == 10
CleanupStaleDays == 3
LastSeenInputs == {Absent, 2, CleanupDay - CleanupStaleDays, CleanupDay}
CleanupKeys == << <<"mobile", "/x">>, <<"desktop", "/y">> >>

HistoryLastSeen(a, b) ==
  [lastUpdated |-> 5,
   keys |-> CleanupKeys,
   paths |-> <<[consecutiveFailures |-> 0, lastSeen |-> a, runs |-> RunsNumbered(1)],
               [consecutiveFailures |-> 2, lastSeen |-> b, runs |-> RunsNumbered(2)]>>]

CleanupCalls ==
  {[fn |-> "cleanupStalePaths", history |-> HistoryLastSeen(a, b),
    activeKeys |-> act \cup extra, staleDays |-> CleanupStaleDays] :
     a \in LastSeenInputs, b \in LastSeenInputs,
     act \in SUBSET {CleanupKeys[1], CleanupKeys[2]},
     extra \in {{}, {<<"tablet", "/z">>}}}

CallCleanupStalePaths ==
  /\ fnCall.fn = "cleanupStalePaths"
  /\ ~fnDone
  /\ LET r == cleanupStalePaths(fnCall.history, fnCall.activeKeys,
                                fnCall.staleDays, CleanupDay)
     IN fnRet' = [fn |-> "cleanupStalePaths", history |-> r.history,
                  removed |-> r.removed]
  /\ fnDone' = TRUE
  /\ UNCHANGED fnCall

\* loadHistory(historyPath): the empty path or a path to a file that is
\* absent, holds a document, holds text that is no JSON, holds a document
\* cut short, or holds a document with paths: null; reading may fail
LoadFiles ==
  { [kind |-> "absent", exists |-> FALSE, text |-> <<>>],
    [kind |-> "document", exists |-> TRUE, text |-> JSONStringify(SeedHistory)],
    [kind |-> "garbage", exists |-> TRUE, text |-> <<GarbageChunk>>],
    [kind |-> "cut", exists |-> TRUE,
     text |-> SubSeq(JSONStringify(SeedHistory), 1, 2)],
    [kind |-> "empty", exists |-> TRUE, text |-> <<>>],
    [kind |-> "nullpaths", exists |-> TRUE, text |-> <<NullPathsChunk>>] }

LoadHistoryCalls ==
  {[fn |-> "loadHistory", historyPath |-> hp, file |-> f, readError |-> e] :
     hp \in {"", "history.json"}, f \in LoadFiles, e \in BOOLEAN}

CallLoadHistory ==
  /\ fnCall.fn = "loadHistory"
  /\ ~fnDone
  /\ LET r == loadHistoryCall(fnCall.historyPath, fnCall.file, fnCall.readError)
     IN fnRet' = [fn |-> "loadHistory", threw |-> r.threw, value |-> r.value,
                  pathsNull |-> r.pathsNull]
  /\ fnDone' = TRUE
  /\ UNCHANGED fnCall

\* detectRegressions(metrics, entry, thresholdPercent, windowSize): the
\* entry is undefined or holds up to MaxRuns runs; the runs and the current
\* snapshot differ in first-contentful-paint
RunValues == {0, 100, 101, 1000}
CurrentValues == {0, 60, 100, 115, 116, 1100, 1101, 5000}
ThresholdValues == {-50, 0, 10, 15}
WindowSizes == {0, 1, 2, DefaultWindowSize}

RunsOfValues(vs) == [i \in 1..Len(vs) |-> [metrics |-> Snapshot(vs[i]), timestamp |-> i]]

EntryInputs ==
  {[present |-> FALSE, runs |-> <<>>]} \cup
  {[present |-> TRUE, runs |-> RunsOfValues(vs)] :
     vs \in UNION {[1..n -> RunValues] : n \in 0..MaxRuns}}

\* entry?.runs ?? []
EntryRuns(entry) == IF entry.present THEN entry.runs ELSE <<>>

DetectCalls ==
  {[fn |-> "detectRegressions", metrics |-> Snapshot(c), entry |-> en,
    thresholdPercent |-> t, windowSize |-> w] :
     c \in CurrentValues, en \in EntryInputs, t \in ThresholdValues,
     w \in WindowSizes}

CallDetectRegressions ==
  /\ fnCall.fn = "detectRegressions"
  /\ ~fnDone
  /\ fnRet' = [fn |-> "detectRegressions",
               regressions |-> detectRegressions(fnCall.metrics,
                                                 EntryRuns(fnCall.entry),
                                                 fnCall.thresholdPercent,
                                                 fnCall.windowSize)]
  /\ fnDone' = TRUE
  /\ UNCHANGED fnCall

\* medianMetrics(allMetrics): the snapshots of 1..MaxRuns result files of one
\* URL under one profile, differing in first-contentful-paint, which a file
\* may lack, and in largest-contentful-paint
MedianFcpValues == {Absent, 950, 1000, 1050}
MedianLcpValues == {2000, 3000}

MedianSnapshots ==
  {[Snapshot(f) EXCEPT !["largest-contentful-paint"] = l] :
     f \in MedianFcpValues, l \in MedianLcpValues}

MedianCalls ==
  {[fn |-> "medianMetrics", allMetrics |-> ms] :
     ms \in UNION {[1..n -> MedianSnapshots] : n \in 1..MaxRuns}}

CallMedianMetrics ==
  /\ fnCall.fn = "medianMetrics"
  /\ ~fnDone
  /\ fnRet' = [fn |-> "medianMetrics", metrics |-> medianMetrics(fnCall.allMetrics)]
  /\ fnDone' = TRUE
  /\ UNCHANGED fnCall

\* ------------------------------------------------ validateHistoryPath
\* A path is the sequence of its characters; node:path is the POSIX one of
\* the runner, for which "/" is the only separator and a backslash an
\* ordinary character of a name.
PathChars == {"a", "w", ".", "/", "\\", ":"}

\* [a-zA-Z]
IsLetter(c) == c \in {"a", "w"}

\* s.split(sep)
SplitOn(s, sep) ==
  LET F[i \in 0..Len(s)] ==
        IF i = 0 THEN << <<>> >>
        ELSE IF s[i] = sep THEN Append(F[i - 1], <<>>)
        ELSE [F[i - 1] EXCEPT ![Len(F[i - 1])] = Append(@, s[i])]
  IN F[Len(s)]

\* a path safety check that lets every path through
isPathSafe_Always(inputPath) == TRUE

isPathSafe(inputPath) ==
  LET normalized == [i \in 1..Len(inputPath) |->
                       IF inputPath[i] = "\\" THEN "/" ELSE inputPath[i]]
  IN /\ ~(Len(normalized) >= 1 /\ normalized[1] = "/")
     /\ ~(Len(normalized) >= 2 /\ IsLetter(normalized[1]) /\ normalized[2] = ":")
     /\ ~SeqContains(SplitOn(normalized, "/"), <<".", ".">>)

\* the names of a normalized absolute path: empty names and "." dropped,
\* ".." taking the name before it away, none at the root
NormalizeNames(names) ==
  LET F[i \in 0..Len(names)] ==
        IF i = 0 THEN <<>>
        ELSE IF names[i] = <<>> \/ names[i] = <<".">> THEN F[i - 1]
        ELSE IF names[i] = <<".", ".">>
        THEN SubSeq(F[i - 1], 1, Len(F[i - 1]) - 1)
        ELSE Append(F[i - 1], names[i])
  IN F[Len(names)]

\* resolve(from, to) for an absolute `from`, as the names of the result
PathResolve(from, to) ==
  NormalizeNames(IF Len(to) >= 1 /\ to[1] = "/" THEN SplitOn(to, "/")
                 ELSE SplitOn(from, "/") \o SplitOn(to, "/"))

\* names joined by "/"
RECURSIVE JoinNames(_)
JoinNames(names) ==
  IF names = <<>> THEN <<>>
  ELSE IF Len(names) = 1 THEN names[1]
  ELSE names[1] \o <<"/">> \o JoinNames(Tail(names))

\* the absolute path of the names
AbsolutePath(names) == <<"/">> \o JoinNames(names)

\* the length of the longest common prefix of two sequences of names
CommonPrefix(a, b) ==
  LET F[i \in 0..Len(a)] ==
        IF i = 0 THEN 0
        ELSE IF F[i - 1] = i - 1 /\ i <= Len(b) /\ a[i] = b[i] THEN i
        ELSE F[i - 1]
  IN F[Len(a)]

\* relative(from, to) for the names of two normalized absolute paths
PathRelative(from, to) ==
  JoinNames([i \in 1..(Len(from) - CommonPrefix(from, to)) |-> <<".", ".">>]
              \o SubSeq(to, CommonPrefix(from, to) + 1, Len(to)))

NullPath == [null |-> TRUE, path |-> <<>>]

\* !rel || rel.startsWith("..") || isAbsolute(rel)
RelEscapes(rel) ==
  \/ rel = <<>>
  \/ Len(rel) >= 2 /\ rel[1] = "." /\ rel[2] = "."
  \/ rel[1] = "/"

validateHistoryPath(historyPath, workspace) ==
  IF ~isPathSafe(historyPath) THEN NullPath
  ELSE IF RelEscapes(PathRelative(PathResolve(workspace, <<>>),
                                  PathResolve(workspace, historyPath)))
  THEN NullPath
  ELSE [null |-> FALSE, path |-> AbsolutePath(PathResolve(workspace, historyPath))]

\* the workspace root: GITHUB_WORKSPACE, an absolute path
Workspaces == {<<"/">>, <<"/", "w">>}

ValidateCalls ==
  {[fn |-> "validateHistoryPath", historyPath |-> hp, workspace |-> ws] :
     hp \in UNION {[1..n -> PathChars] : n \in 0..MaxPathLen},
     ws \in Workspaces}

CallValidateHistoryPath ==
  /\ fnCall.fn = "validateHistoryPath"
  /\ ~fnDone
  /\ fnRet' = [fn |-> "validateHistoryPath",
               result |-> validateHistoryPath(fnCall.historyPath, fnCall.workspace)]
  /\ fnDone' = TRUE
  /\ UNCHANGED fnCall

FnCalls ==
  SaveHistoryCalls \cup CleanupCalls \cup LoadHistoryCalls \cup DetectCalls
    \cup MedianCalls \cup ValidateCalls

NextFn ==
  \/ CallSaveHistory /\ UNCHANGED <<storeVars, issueVars, runVars>>
  \/ CallCleanupStalePaths /\ UNCHANGED <<storeVars, issueVars, runVars>>
  \/ CallLoadHistory /\ UNCHANGED <<storeVars, issueVars, runVars>>
  \/ CallDetectRegressions /\ UNCHANGED <<storeVars, issueVars, runVars>>
  \/ CallMedianMetrics /\ UNCHANGED <<storeVars, issueVars, runVars>>
  \/ CallValidateHistoryPath /\ UNCHANGED <<storeVars, issueVars, runVars>>

InitFnSpec ==
  /\ InitStore
  /\ histFile = [exists |-> FALSE, text |-> <<>>]
  /\ config = DefaultConfig
  /\ InitIssue
  /\ InitRun
  /\ fnCall \in FnCalls
  /\ fnRet = [fn |-> "none"]
  /\ fnDone = FALSE

SpecFn == InitFnSpec /\ [][NextFn]_vars

Min(a, b) == IF a <= b THEN a ELSE b

\* C12: after a successful saveHistory(path, history, maxRunsPerKey), for
\* every maxRunsPerKey >= 0, every entry of the written document has at most
\* maxRunsPerKey runs, and they are the last min(maxRunsPerKey, n) of the n
\* runs the entry had, in their original order.
C12_TrimmedToMax ==
  (fnDone /\ fnCall.fn = "saveHistory") =>
    LET doc == JSONParse(fnRet.written).value
        h == fnCall.history
        m == fnCall.maxRunsPerKey
    IN /\ doc.keys = h.keys
       /\ \A i \in 1..Len(h.paths) :
            LET old == h.paths[i].runs
                n == Len(old)
                k == Min(m, n)
            IN /\ Len(doc.paths[i].runs) <= m
               /\ doc.paths[i].runs = SubSeq(old, n - k + 1, n)

SeqRange(q) == {q[i] : i \in 1..Len(q)}

\* the keys cleanupStalePaths is to remove: not active, and last seen at an
\* unparseable date or earlier than staleDays days before today
StaleKeys(h, active, staleDays, today) ==
  {h.keys[i] : i \in {j \in 1..Len(h.keys) :
                        /\ h.keys[j] \notin active
                        /\ \/ h.paths[j].lastSeen = Absent
                           \/ h.paths[j].lastSeen < today - staleDays}}

\* C13: cleanupStalePaths removes exactly the entries whose key is not in
\* activeKeys and whose lastSeen is unparseable or earlier than now minus
\* staleDays days, returns exactly the removed keys, and leaves every other
\* entry unchanged; a key in activeKeys is never removed.
C13_CleanupExact ==
  (fnDone /\ fnCall.fn = "cleanupStalePaths") =>
    LET h == fnCall.history
        out == fnRet.history
        gone == StaleKeys(h, fnCall.activeKeys, fnCall.staleDays, CleanupDay)
    IN /\ SeqRange(fnRet.removed) = gone
       /\ Len(fnRet.removed) = Cardinality(gone)
       /\ SeqRange(out.keys) = SeqRange(h.keys) \ gone
       /\ Len(out.keys) = Cardinality(SeqRange(out.keys))
       /\ Len(out.paths) = Len(out.keys)
       /\ \A k \in SeqRange(out.keys) : EntryOf(out, k) = EntryOf(h, k)
       /\ out.lastUpdated = h.lastUpdated
       /\ \A k \in fnCall.activeKeys : HasKey(h, k) => HasKey(out, k)

\* a call that kept an active entry whose lastSeen is unparseable and removed
\* the other entry, inactive and last seen before the cutoff
C13_Witness ==
  /\ fnDone
  /\ fnCall.fn = "cleanupStalePaths"
  /\ fnCall.activeKeys = {CleanupKeys[1]}
  /\ fnCall.history.paths[1].lastSeen = Absent
  /\ fnCall.history.paths[2].lastSeen = 2
  /\ fnRet.removed = <<CleanupKeys[2]>>
  /\ fnRet.history.keys = <<CleanupKeys[1]>>

\* C15: loadHistory never throws; when the path is empty, the file is absent
\* or its content is not parseable JSON (or cannot be read) it returns the
\* empty document {version: 1, lastUpdated: "", paths: {}}.
C15_LoadNeverThrows ==
  (fnDone /\ fnCall.fn = "loadHistory") =>
    /\ ~fnRet.threw
    /\ ( \/ fnCall.historyPath = ""
         \/ fnCall.file.kind \in {"absent", "garbage", "cut", "empty"}
         \/ fnCall.readError )
         => (fnRet.value = EmptyHistory /\ ~fnRet.pathsNull)

\* a call on a file cut short in the middle of the document, which returned
\* the empty document
C15_Witness ==
  /\ fnDone
  /\ fnCall.fn = "loadHistory"
  /\ fnCall.historyPath # ""
  /\ fnCall.file.kind = "cut"
  /\ ~fnCall.readError
  /\ ~fnRet.threw
  /\ fnRet.value = EmptyHistory

\* the window of a call: the runs that slice(-windowSize) keeps of the
\* entry's runs, none when the entry is undefined
WindowOf(call) == SliceLast(EntryRuns(call.entry), call.windowSize)

StrictlyAboveBound(current, window, metric, thresholdPercent) ==
  LET present == SelectSeq(window, LAMBDA r : r.metrics[metric] # Absent)
      values == [i \in 1..Len(present) |-> present[i].metrics[metric]]
  IN /\ current # Absent
     /\ Len(values) > 0
     /\ current * Len(values) * 100 > SumSeq(values) * (100 + thresholdPercent)

\* C20: for every metric, window of at least 2 runs and threshold, a
\* regression for the metric is reported iff the current value is strictly
\* greater than avg * (1 + thresholdPercent / 100); a current value equal to
\* that bound is never reported.
C20_StrictThreshold ==
  (fnDone /\ fnCall.fn = "detectRegressions" /\ Len(WindowOf(fnCall)) >= 2) =>
    \A metric \in MetricKeySet :
      (\E i \in 1..Len(fnRet.regressions) : fnRet.regressions[i].metric = metric)
        <=> StrictlyAboveBound(fnCall.metrics[metric], WindowOf(fnCall), metric,
                               fnCall.thresholdPercent)

\* the metric is among the regressions the call returned
Reported(metric) ==
  \E i \in 1..Len(fnRet.regressions) : fnRet.regressions[i].metric = metric

\* the values the window has for the metric
WindowValues(window, metric) ==
  LET present == SelectSeq(window, LAMBDA r : r.metrics[metric] # Absent)
  IN [i \in 1..Len(present) |-> present[i].metrics[metric]]

\* current is below the mean of the window's values, over the rationals
BelowAverage(current, window, metric) ==
  /\ current # Absent
  /\ Len(WindowValues(window, metric)) > 0
  /\ current * Len(WindowValues(window, metric)) < SumSeq(WindowValues(window, metric))

\* C21: for every metric, every threshold and every window of at least 2
\* runs, a current value lower than the metric's historical average never
\* produces a regression for that metric.
C21_ImprovementNeverFlagged ==
  (fnDone /\ fnCall.fn = "detectRegressions" /\ Len(WindowOf(fnCall)) >= 2) =>
    \A metric \in MetricKeySet :
      BelowAverage(fnCall.metrics[metric], WindowOf(fnCall), metric)
        => ~Reported(metric)

\* the window has values for the metric and all of them are 0
ZeroAverage(window, metric) ==
  /\ Len(WindowValues(window, metric)) > 0
  /\ SumSeq(WindowValues(window, metric)) = 0

\* C22: when a metric's average over a window of at least 2 runs is 0, a
\* current value of 0 yields no regression for the metric and a current
\* value above 0 yields a regression whose percentChange is the sentinel,
\* whatever the threshold; no regression carries the text of NaN or of
\* Infinity.
C22_ZeroAverage ==
  (fnDone /\ fnCall.fn = "detectRegressions") =>
    /\ \A i \in 1..Len(fnRet.regressions) :
         fnRet.regressions[i].percentChange \in {"dash", "percent"}
    /\ Len(WindowOf(fnCall)) >= 2 =>
         \A metric \in MetricKeySet :
           ZeroAverage(WindowOf(fnCall), metric) =>
             /\ fnCall.metrics[metric] = 0 => ~Reported(metric)
             /\ fnCall.metrics[metric] > 0 =>
                  \E i \in 1..Len(fnRet.regressions) :
                    /\ fnRet.regressions[i].metric = metric
                    /\ fnRet.regressions[i].percentChange = "dash"

\* a call with two runs of 0 and a current value of 100 under a threshold
\* of 15, which reported first-contentful-paint with the sentinel, and did
\* not report cumulative-layout-shift, 0 in the runs and in the snapshot
C22_Witness ==
  /\ fnDone
  /\ fnCall.fn = "detectRegressions"
  /\ fnCall.entry.present
  /\ Len(fnCall.entry.runs) = 2
  /\ \A i \in 1..2 : fnCall.entry.runs[i].metrics["first-contentful-paint"] = 0
  /\ fnCall.windowSize = 2
  /\ fnCall.thresholdPercent = 15
  /\ fnCall.metrics["first-contentful-paint"] = 100
  /\ fnCall.metrics["cumulative-layout-shift"] = 0
  /\ ~Reported("cumulative-layout-shift")
  /\ \E i \in 1..Len(fnRet.regressions) :
       /\ fnRet.regressions[i].metric = "first-contentful-paint"
       /\ fnRet.regressions[i].percentChange = "dash"

\* the last k runs
LastRuns(runs, k) == SubSeq(runs, Len(runs) - k + 1, Len(runs))

\* C23: for every non-negative windowSize, detectRegressions computes each
\* baseline from exactly the last min(windowSize, n) of the entry's n runs:
\* what it returns is what it returns on the entry cut to those runs.
C23_OnlyLastWindowSizeRuns ==
  (fnDone /\ fnCall.fn = "detectRegressions") =>
    fnRet.regressions =
      detectRegressions(fnCall.metrics,
                        LastRuns(EntryRuns(fnCall.entry),
                                 Min(fnCall.windowSize, Len(EntryRuns(fnCall.entry)))),
                        fnCall.thresholdPercent, fnCall.windowSize)

\* the values the snapshots have for the key, in ascending order
SortedValues(allMetrics, key) ==
  LET present == SelectSeq(allMetrics, LAMBDA m : m[key] # Absent)
  IN SortAsc([i \in 1..Len(present) |-> present[i][key]])

\* v is the median of the sorted values: the middle one of an odd count, the
\* mean of the two middle ones of an even count; absent when there is none
IsMedian(v, sorted) ==
  LET n == Len(sorted)
  IN IF n = 0 THEN v = Absent
     ELSE IF n % 2 = 1 THEN v = sorted[(n + 1) \div 2]
     ELSE 2 * v = sorted[n \div 2] + sorted[(n \div 2) + 1]

\* C24: with a single run the aggregated snapshot equals that run; with
\* several runs each metric is the median of the values present for it (the
\* middle value for an odd count, the mean of the two middle values for an
\* even count), whatever the other metrics are, and is absent iff it is
\* absent in every run.
C24_MedianPerMetric ==
  (fnDone /\ fnCall.fn = "medianMetrics") =>
    IF Len(fnCall.allMetrics) = 1 THEN fnRet.metrics = fnCall.allMetrics[1]
    ELSE \A key \in MetricKeySet :
           IsMedian(fnRet.metrics[key], SortedValues(fnCall.allMetrics, key))

\* =========================================================================
\* The analysis of a cycle (SpecRun)
\* =========================================================================
\* the fold of the cycle has produced its AnalysisResult
Analyzed == runAnalysis # NoAnalysis

\* C25: in every AnalysisResult a ProfileResult's passed is true iff it has
\* no regression and no scoped failed assertion; a UrlResult's passed is
\* true iff every ProfileResult nested under it passed, the nested ones
\* being the ProfileResults of its url; the global passed is true iff every
\* UrlResult passed; hasRegressions is true iff some ProfileResult has a
\* regression.
C25_PassedFlags ==
  Analyzed =>
    LET a == runAnalysis
    IN /\ \A i \in 1..Len(a.results) :
            a.results[i].passed <=>
              (Len(a.results[i].regressions) = 0 /\ Len(a.results[i].assertions) = 0)
       /\ \A i \in 1..Len(a.results) :
            \E j \in 1..Len(a.urls) : a.urls[j].url = a.results[i].url
       /\ \A j \in 1..Len(a.urls) :
            /\ a.urls[j].profiles =
                 SelectSeq(a.results, LAMBDA r : r.url = a.urls[j].url)
            /\ a.urls[j].passed <=>
                 (\A i \in 1..Len(a.results) :
                    a.results[i].url = a.urls[j].url => a.results[i].passed)
       /\ a.passed <=> (\A j \in 1..Len(a.urls) : a.urls[j].passed)
       /\ a.hasRegressions <=>
            (\E i \in 1..Len(a.results) : Len(a.results[i].regressions) > 0)

\* an analysis with a UrlResult all of whose profiles passed and a UrlResult
\* with a profile that passed and one that did not
C25_Witness ==
  /\ Analyzed
  /\ ~runAnalysis.passed
  /\ \E j \in 1..Len(runAnalysis.urls) :
       /\ Len(runAnalysis.urls[j].profiles) = 2
       /\ runAnalysis.urls[j].passed
  /\ \E j \in 1..Len(runAnalysis.urls) :
       /\ ~runAnalysis.urls[j].passed
       /\ \E k \in 1..2 : runAnalysis.urls[j].profiles[k].passed
       /\ \E k \in 1..2 : ~runAnalysis.urls[j].profiles[k].passed

\* the urls an artifact has results for, in the order of their first file
RECURSIVE UrlsOfLhrs(_)
UrlsOfLhrs(lhrs) ==
  IF lhrs = <<>> THEN <<>>
  ELSE LET rest == UrlsOfLhrs(SubSeq(lhrs, 1, Len(lhrs) - 1))
           l == lhrs[Len(lhrs)]
       IN IF l.parsed /\ extractUrl(l).kind # "empty"
             /\ ~SeqContains(rest, extractUrl(l))
          THEN Append(rest, extractUrl(l)) ELSE rest

\* the (artifact, url) pairs of the discovered artifacts, in the order of
\* the artifacts
RECURSIVE ArtifactUrlPairs(_)
ArtifactUrlPairs(arts) ==
  IF arts = <<>> THEN <<>>
  ELSE LET urls == UrlsOfLhrs(Head(arts).lhrs)
       IN [j \in 1..Len(urls) |-> [artifact |-> Head(arts), url |-> urls[j]]]
            \o ArtifactUrlPairs(Tail(arts))

LoadedRuns(r) ==
  IF HasKey(runLoaded.value, historyKey(r))
  THEN EntryOf(runLoaded.value, historyKey(r)).runs ELSE <<>>

\* C29: for each (profile, pathname) key the regression detection of a cycle
\* runs on the entry as it was loaded at the start of the cycle, before any
\* run of the cycle is appended to it.
C29_DetectionOnLoadedEntry ==
  (Analyzed /\ runConfig.historyEnabled) =>
    \A i \in 1..Len(runAnalysis.results) :
      runAnalysis.results[i].regressions =
        detectRegressions(runRaw[i].metrics, LoadedRuns(runRaw[i]),
                          runConfig.regressionThreshold, DefaultWindowSize)

\* =========================================================================
\* validateHistoryPath (SpecFn)
\* =========================================================================
Slashes == {"/", "\\"}

\* p has a segment "..", its segments being told apart by either slash
HasDotDotSegment(p) ==
  \E i \in 1..(Len(p) - 1) :
    /\ p[i] = "." /\ p[i + 1] = "."
    /\ (i = 1 \/ p[i - 1] \in Slashes)
    /\ (i + 1 = Len(p) \/ p[i + 2] \in Slashes)

\* path is root followed by one or more names, none of them "." or "..",
\* each after one "/"
StrictlyInside(path, root) ==
  LET base == IF root = <<"/">> THEN <<>> ELSE root
      rest == SubSeq(path, Len(base) + 1, Len(path))
  IN /\ Len(path) > Len(base) + 1
     /\ SubSeq(path, 1, Len(base)) = base
     /\ rest[1] = "/"
     /\ \A i \in 1..Len(rest) :
          rest[i] = "/" => (i < Len(rest) /\ rest[i + 1] # "/")
     /\ \A i \in 1..(Len(rest) - 1) :
          (rest[i] = "/" /\ rest[i + 1] = ".") =>
            /\ i + 1 < Len(rest)
            /\ rest[i + 2] # "/"
            /\ rest[i + 2] = "." => (i + 2 < Len(rest) /\ rest[i + 3] # "/")

\* C27: validateHistoryPath(p, workspace) returns either null or an
\* absolute path strictly inside the workspace root, and null for every p
\* that is absolute, starts with a drive letter, contains a ".." segment
\* (with forward or backward slashes) or resolves to the workspace root.
C27_PathInsideWorkspace ==
  (fnDone /\ fnCall.fn = "validateHistoryPath") =>
    LET hp == fnCall.historyPath
    IN /\ fnRet.result.null
            \/ StrictlyInside(fnRet.result.path, fnCall.workspace)
       /\ ( \/ Len(hp) >= 1 /\ hp[1] \in Slashes
            \/ Len(hp) >= 2 /\ IsLetter(hp[1]) /\ hp[2] = ":"
            \/ HasDotDotSegment(hp)
            \/ PathResolve(fnCall.workspace, hp) = PathResolve(fnCall.workspace, <<>>) )
           => fnRet.result.null

\* the call validateHistoryPath("a/..", "/w"), which returned null
C27_Witness ==
  /\ fnDone
  /\ fnCall.fn = "validateHistoryPath"
  /\ fnCall.historyPath = <<"a", "/", ".", ".">>
  /\ fnCall.workspace = <<"/", "w">>
  /\ fnRet.result.null

\* the call validateHistoryPath("a/w", "/w"), which returned "/w/a/w"
C27_Accepted ==
  /\ fnDone
  /\ fnCall.fn = "validateHistoryPath"
  /\ fnCall.historyPath = <<"a", "/", "w">>
  /\ fnCall.workspace = <<"/", "w">>
  /\ fnRet.result = [null |-> FALSE, path |-> <<"/", "w", "/", "a", "/", "w">>]

StaleLock == \E p \in Procs : pc[p] = "crashed"

\* C30: the lock file of a writer killed between the create and the unlink is
\* never reclaimed: it stays on disk with the dead writer's pid, no later
\* step changes it or the history file, and every saveHistory that tries the
\* lock afterwards ends before its try block, with the lock error once its
\* three creates have found the file (or with the create's own error when
\* the create fails otherwise), never with the lock.
C30_StaleLockNeverReclaimed ==
  /\ [](\A p \in Procs : pc[p] = "crashed" => lockFile = p)
  /\ [][StaleLock => (histFile' = histFile /\ lockFile' = lockFile)]_vars
  /\ [][\A q \in Procs :
          (StaleLock /\ pc[q] \in {"acquire", "backoff"})
            => /\ pc'[q] \in {"acquire", "backoff", "report"}
               /\ pc'[q] = "report" => outcome'[q] \in {"lockfail", "lockerr"}
               /\ (pc'[q] = "report" /\ attempt'[q] = LockAttempts)
                    => outcome'[q] = "lockfail"]_vars

\* a writer was killed in the middle of its write; the other invocation has
\* since run to its last cycle and its save has failed with the lock error,
\* the dead writer's lock and the half-written file still on disk
C30_Witness ==
  \E p, q \in Procs :
    /\ pc[p] = "crashed" /\ wpos[p] > 0 /\ lockFile = p
    /\ pc[q] = "report" /\ outcome[q] = "lockfail"
    /\ cycle[q] = MaxCycles

CloseRequests == {i \in 1..Len(calls) : calls[i].op = "update"}

\* the all-clear comment of the current manageIssue was refused
AllClearRefused ==
  /\ ipc = "idle"
  /\ threw
  /\ calls # <<>>
  /\ Last(calls) = ApiCall("createComment", existingIssue, "allclear")

\* C28: manageIssue sends the close request only as the call right after
\* the all-clear comment on the same issue, and only when that comment was
\* posted; when the comment is refused manageIssue ends without a close
\* request and the issue is still open; a failing analysis makes no close
\* request.
C28_CloseOnlyAfterAllClear ==
  /\ [][(Len(calls') > Len(calls) /\ Last(calls').op = "update")
          => /\ analysisPassed
             /\ ~threw
             /\ existingIssue # 0
             /\ Last(calls) = ApiCall("createComment", existingIssue, "allclear")
             /\ Last(calls') = ApiCall("update", existingIssue, "closed")]_vars
  /\ [][(ipc = "allclear" /\ threw') => (ipc' = "idle" /\ issues' = issues)]_vars
  /\ [](AllClearRefused => (CloseRequests = {} /\ issues[existingIssue].open))
  /\ []((issueCycles > 0 /\ ~analysisPassed) => CloseRequests = {})
  /\ [][\A n \in 1..Len(issues) :
          (issues[n].open /\ ~issues'[n].open)
            => (n = existingIssue /\ Last(calls') = ApiCall("update", n, "closed"))]_vars

\* a passing analysis found the open issue, its all-clear comment was
\* refused, and manageIssue is over with the issue still open
C28_Witness ==
  /\ AllClearRefused
  /\ analysisPassed
  /\ Len(calls) = 2
  /\ issues[existingIssue].open

====
